---- MODULE Spec2Model ----
(***************************************************************************)
(* Model of the marketing report engine of app/bot/marketing_analysis.py:  *)
(* field resolution, value coercion, the aggregation loop, the post-pass,  *)
(* the ranking and the rendering of build_marketing_report, and the scope  *)
(* normalisation of normalize_scope.                                       *)
(*                                                                         *)
(* Python values are tagged records.  Numbers are exact rationals n/d in   *)
(* lowest terms (d > 0); the rounding of binary floating point is outside  *)
(* the value domain, and a non-finite float occurs only as the value of a  *)
(* cell, never as the result of arithmetic.  Python strings are sequences  *)
(* of one-character strings so that strip(), replace() and float() act on  *)
(* their characters.                                                       *)
(***************************************************************************)
EXTENDS Integers, Sequences, FiniteSets, TLC

VARIABLES
    mode,             \* which row pool the caller draws from (fixed by Init)
    pc,               \* position inside build_marketing_report
    data,             \* argument: the list of rows
    scope,            \* argument: the requested scope
    i,                \* number of rows the for loop has consumed
    aggregates,       \* dict name -> entry, as a sequence in insertion order
    overall,          \* the overall totals dict
    loc,              \* locals of the loop body (name, key, spend, ...)
    sorted_entities,  \* result of sorted(...)
    result,           \* what the call returned or raised
    prev,             \* the first completed call (arguments and outcome)
    norm,             \* the frame of normalize_scope: position, argument, locals
    sales,            \* the frame of _build_sales_insights: position, argument, locals
    chat,             \* ConversationManager: self.conversations, the conversation dicts, the process_message frames
    hook              \* the frame of webhook_verify: position, query parameters, response

\* the variables of build_marketing_report
reportVars ==
    <<mode, pc, data, scope, i, aggregates, overall, loc, sorted_entities, result, prev>>

\* what a step of build_marketing_report leaves alone
outsideReport == <<norm, sales, chat, hook>>

\* what a step of normalize_scope leaves alone
outsideScope == <<reportVars, sales, chat, hook>>

\* what a step of _build_sales_insights leaves alone
outsideSales == <<reportVars, norm, chat, hook>>

\* what a step of process_message leaves alone
outsideChat == <<reportVars, norm, sales, hook>>

\* what a step of webhook_verify leaves alone
outsideHook == <<reportVars, norm, sales, chat>>

vars == <<mode, pc, data, scope, i, aggregates, overall, loc, sorted_entities, result, prev,
          norm, sales, chat, hook>>

(***************************************************************************)
(* Bounds                                                                  *)
(***************************************************************************)
MaxRows == 2
\* the longest row list when rankings of four and more entities are explored
MaxRankRows == 4
\* the longest row list when every reordering of the rows is compared
MaxPermRows == 3
\* the most pieces a text handed to normalize_scope is made of
MaxPieces == 2
\* the longest list of monthly sales rows
MaxSalesRows == 3
\* the longest row list when the grouping by name is explored
MaxGroupRows == 3
\* calls of process_message made one after the other
MaxCalls == 2
\* calls of process_message made by the two concurrent callers
MaxRaceCalls == 2

(***************************************************************************)
(* Python values                                                           *)
(***************************************************************************)
PyNone == [t |-> "none", n |-> 0, d |-> 1, s |-> <<>>]
PyBool(b) == [t |-> "bool", n |-> IF b THEN 1 ELSE 0, d |-> 1, s |-> <<>>]
PyStr(chars) == [t |-> "str", n |-> 0, d |-> 1, s |-> chars]
PyDate(day) == [t |-> "datetime", n |-> day, d |-> 1, s |-> <<>>]
\* float("nan"), float("inf"): a float for which math.isfinite is False
PyNonFinite == [t |-> "nonfinite", n |-> 0, d |-> 1, s |-> <<>>]

Abs(x) == IF x < 0 THEN -x ELSE x

RECURSIVE Gcd(_, _)
Gcd(a, b) == IF b = 0 THEN a ELSE Gcd(b, a % b)

\* the number n/d (d # 0) in lowest terms with a positive denominator
Num(n, d) ==
    LET g == Gcd(Abs(n), Abs(d))
        sg == IF d < 0 THEN -1 ELSE 1
    IN [t |-> "num", n |-> sg * (n \div g), d |-> sg * (d \div g), s |-> <<>>]

Int2Num(n) == Num(n, 1)
Zero == Int2Num(0)

IsNone(v) == v.t = "none"

NumAdd(a, b) == Num(a.n * b.d + b.n * a.d, a.d * b.d)
NumDiv(a, b) == Num(a.n * b.d, a.d * b.n)
NumLess(a, b) == a.n * b.d < b.n * a.d
NumIsZero(a) == a.n = 0
NumPositive(a) == a.n > 0

\* bool(value): None, 0, False, "" are falsy
Truthy(v) ==
    CASE v.t = "none" -> FALSE
      [] v.t = "bool" -> v.n = 1
      [] v.t = "num" -> v.n # 0
      [] v.t = "str" -> v.s # <<>>
      [] OTHER -> TRUE

(***************************************************************************)
(* Strings                                                                 *)
(***************************************************************************)
Digits == <<"0", "1", "2", "3", "4", "5", "6", "7", "8", "9">>
IsDigit(c) == \E k \in 1..10 : Digits[k] = c
DigitVal(c) == (CHOOSE k \in 1..10 : Digits[k] = c) - 1
IsSpace(c) == c = " "

RECURSIVE LStrip(_)
LStrip(s) == IF s # <<>> /\ IsSpace(Head(s)) THEN LStrip(Tail(s)) ELSE s

RECURSIVE RStrip(_)
RStrip(s) ==
    IF s # <<>> /\ IsSpace(s[Len(s)]) THEN RStrip(SubSeq(s, 1, Len(s) - 1)) ELSE s

\* str.strip()
Strip(s) == RStrip(LStrip(s))

\* str.replace(c, "") for each c in chars
RemoveChars(s, chars) == SelectSeq(s, LAMBDA c : c \notin chars)

RECURSIVE NatToChars(_)
NatToChars(n) ==
    IF n < 10 THEN <<Digits[n + 1]>>
    ELSE NatToChars(n \div 10) \o <<Digits[(n % 10) + 1]>>

RECURSIVE DigitsToNat(_)
DigitsToNat(s) ==
    IF s = <<>> THEN 0
    ELSE 10 * DigitsToNat(SubSeq(s, 1, Len(s) - 1)) + DigitVal(s[Len(s)])

RECURSIVE Pow10(_)
Pow10(k) == IF k = 0 THEN 1 ELSE 10 * Pow10(k - 1)

AllDigits(s) == \A k \in 1..Len(s) : IsDigit(s[k])

\* str(value) for the values a cell can hold (numbers in cells are ints)
StrOf(v) ==
    CASE v.t = "str" -> v.s
      [] v.t = "num" ->
            IF v.n < 0 THEN <<"-">> \o NatToChars(-v.n) ELSE NatToChars(v.n)
      [] v.t = "bool" ->
            IF v.n = 1 THEN <<"T", "r", "u", "e">> ELSE <<"F", "a", "l", "s", "e">>
      [] v.t = "datetime" -> <<"d", "t">> \o NatToChars(v.n)
      [] v.t = "nonfinite" -> <<"n", "a", "n">>
      [] OTHER -> <<"N", "o", "n", "e">>

\* float(text) on the decimal literals [sign] digits [. digits]; of the texts
\* over the modelled characters every other one raises ValueError, modelled
\* as PyNone (exponents and the words nan, inf, infinity are not spelled by
\* any modelled cell)
ParseFloat(s) ==
    LET body == IF s # <<>> /\ Head(s) \in {"-", "+"} THEN Tail(s) ELSE s
        neg == s # <<>> /\ Head(s) = "-"
        dots == {k \in 1..Len(body) : body[k] = "."}
        ip == IF dots = {} THEN body
              ELSE SubSeq(body, 1, (CHOOSE k \in dots : TRUE) - 1)
        fp == IF dots = {} THEN <<>>
              ELSE SubSeq(body, (CHOOSE k \in dots : TRUE) + 1, Len(body))
        mag == Num(DigitsToNat(ip) * Pow10(Len(fp)) + DigitsToNat(fp), Pow10(Len(fp)))
    IN IF Cardinality(dots) <= 1 /\ AllDigits(ip) /\ AllDigits(fp) /\ Len(ip) + Len(fp) > 0
       THEN (IF neg THEN Num(-mag.n, mag.d) ELSE mag)
       ELSE PyNone

\* the modelled characters in code point order (str comparison, sorted(ids))
Alphabet == <<" ", "$", "%", "+", ",", "-", ".",
              "0", "1", "2", "3", "4", "5", "6", "7", "8", "9",
              "A", "B", "C", "D", "F", "N", "T", "a", "b", "c", "d", "e", "l", "n", "o",
              "r", "s", "t", "u", "x", "y">>
CharOrd(c) == CHOOSE k \in 1..Len(Alphabet) : Alphabet[k] = c

\* a < b for Python str
RECURSIVE StrLess(_, _)
StrLess(a, b) ==
    IF b = <<>> THEN FALSE
    ELSE IF a = <<>> THEN TRUE
    ELSE IF Head(a) = Head(b) THEN StrLess(Tail(a), Tail(b))
    ELSE CharOrd(Head(a)) < CharOrd(Head(b))

\* sorted(set_of_str)
RECURSIVE SortedStrs(_)
SortedStrs(S) ==
    IF S = {} THEN <<>>
    ELSE LET m == CHOOSE x \in S : \A y \in S \ {x} : StrLess(x, y)
         IN <<m>> \o SortedStrs(S \ {m})

(***************************************************************************)
(* Configuration tables                                                    *)
(***************************************************************************)
SCOPE_CONFIG ==
    [campaigns |->
        [label |-> "campañas", singular |-> "campaña",
         group_keys |-> <<"campaign_name", "name_campaign", "campaign",
                          "campaign_nombre", "nombre_campana", "nombre_campaña",
                          "campaign_title", "titulo_campana">>,
         id_keys |-> <<"campaign_id", "id_campaign", "id_campana", "id_campaña",
                       "campaignid", "campana_id">>],
     adsets |->
        [label |-> "conjuntos de anuncios", singular |-> "conjunto de anuncios",
         group_keys |-> <<"adset_name", "ad_set_name", "name_adset", "adset",
                          "conjunto", "conjunto_de_anuncios", "nombre_conjunto",
                          "nombre_conjunto_de_anuncios">>,
         id_keys |-> <<"adset_id", "id_adset", "conjunto_id",
                       "conjunto_anuncios_id", "adsetid">>],
     ads |->
        [label |-> "anuncios", singular |-> "anuncio",
         group_keys |-> <<"ad_name", "name_ad", "ad", "nombre_anuncio",
                          "ad_title", "titulo_anuncio">>,
         id_keys |-> <<"ad_id", "id_ad", "id_anuncio", "anuncio_id", "adid",
                       "creative_id">>]]

SPEND_KEYS == <<"amount_spent", "spend", "gasto", "gasto_total", "inversion",
                "investment", "inversion_total", "costo", "cost", "coste",
                "monto_gastado", "spent">>

REVENUE_KEYS == <<"revenue", "ingresos", "income", "ventas", "total_revenue",
                  "return", "retorno", "valor", "value", "compras_valor">>

CONVERSION_KEYS == <<"conversions", "conversiones", "purchases", "compras",
                     "sales", "ventas_realizadas", "resultados", "results", "leads">>

CPC_KEYS == <<"cpc", "cost_per_click", "costo_por_click", "costo_por_clic",
              "coste_por_clic", "coste_por_click">>

CLICKS_KEYS == <<"clicks", "link_clicks", "click", "clics", "clics_enlace",
                 "clicks_enlace">>

DATE_START_KEYS == <<"start_date", "fecha_inicio", "period_start", "inicio",
                     "fecha", "date", "created_at">>

DATE_END_KEYS == <<"end_date", "fecha_fin", "period_end", "fin", "updated_at">>

(***************************************************************************)
(* Field resolution and value coercion                                     *)
(***************************************************************************)
\* key in row
HasKey(row, key) == key \in DOMAIN row

\* row.get(key)
RowGet(row, key) == IF HasKey(row, key) THEN row[key] ELSE PyNone

MinOf(S) == CHOOSE x \in S : \A y \in S : x <= y

\* _to_float without the isinstance(value, bool) exclusion: True is 1.0
ToFloatBoolAsNumber(value) ==
    CASE value.t = "none" -> PyNone
      [] value.t = "num" -> value
      [] value.t = "bool" -> Int2Num(value.n)
      [] value.t = "nonfinite" -> PyNone
      [] value.t = "str" ->
            LET cleaned == Strip(RemoveChars(value.s, {"$", ",", "%"}))
            IN IF cleaned = <<>> THEN PyNone ELSE ParseFloat(cleaned)
      [] OTHER -> PyNone

\* _to_float(value): a finite number or None
ToFloat(value) ==
    CASE value.t = "none" -> PyNone
      [] value.t = "num" -> value
      [] value.t = "nonfinite" -> PyNone
      [] value.t = "str" ->
            LET cleaned == Strip(RemoveChars(value.s, {"$", ",", "%"}))
            IN IF cleaned = <<>> THEN PyNone ELSE ParseFloat(cleaned)
      [] OTHER -> PyNone

\* _extract_numeric that keeps scanning and returns the last usable alias
ExtractNumericLastAlias(row, keys) ==
    LET hits == {k \in 1..Len(keys) :
                    /\ HasKey(row, keys[k])
                    /\ ~IsNone(row[keys[k]])
                    /\ ~IsNone(ToFloat(row[keys[k]]))}
    IN IF hits = {} THEN Zero
       ELSE ToFloat(row[keys[CHOOSE k \in hits : \A j \in hits : j <= k]])

\* _extract_numeric(row, keys)
ExtractNumeric(row, keys) ==
    LET hits == {k \in 1..Len(keys) :
                    /\ HasKey(row, keys[k])
                    /\ ~IsNone(row[keys[k]])
                    /\ ~IsNone(ToFloat(row[keys[k]]))}
    IN IF hits = {} THEN Zero ELSE ToFloat(row[keys[MinOf(hits)]])

\* _get_first_non_empty testing "value is not None" instead of "value"
GetFirstNonNull(row, keys) ==
    LET hits == {k \in 1..Len(keys) : ~IsNone(RowGet(row, keys[k]))}
    IN IF hits = {} THEN PyNone ELSE PyStr(StrOf(RowGet(row, keys[MinOf(hits)])))

\* _get_first_non_empty(row, keys): str(value) of the first truthy value
GetFirstNonEmpty(row, keys) ==
    LET hits == {k \in 1..Len(keys) : Truthy(RowGet(row, keys[k]))}
    IN IF hits = {} THEN PyNone ELSE PyStr(StrOf(RowGet(row, keys[MinOf(hits)])))

\* calendar dates are encoded as year*10000 + month*100 + day
DateOf(y, m, dd) == PyDate(y * 10000 + m * 100 + dd)

IsLeap(y) == (y % 4 = 0 /\ y % 100 # 0) \/ y % 400 = 0

DaysIn(y, m) ==
    IF m = 2 THEN (IF IsLeap(y) THEN 29 ELSE 28)
    ELSE IF m \in {4, 6, 9, 11} THEN 30 ELSE 31

\* datetime.strptime(text[:len("%Y-%m-%d")], "%Y-%m-%d"): the slice keeps 8
\* characters, so it matches only YYYY-M-D with one-digit month and day
StrpDate8(text) ==
    LET p == SubSeq(text, 1, IF Len(text) < 8 THEN Len(text) ELSE 8)
    IN IF /\ Len(p) = 8
          /\ AllDigits(SubSeq(p, 1, 4)) /\ p[5] = "-" /\ IsDigit(p[6])
          /\ p[7] = "-" /\ IsDigit(p[8])
          /\ DigitsToNat(SubSeq(p, 1, 4)) >= 1
          /\ DigitVal(p[6]) >= 1 /\ DigitVal(p[8]) >= 1
       THEN DateOf(DigitsToNat(SubSeq(p, 1, 4)), DigitVal(p[6]), DigitVal(p[8]))
       ELSE PyNone

\* datetime.fromisoformat(text) on date-only text YYYY-MM-DD
FromIsoDate(text) ==
    IF /\ Len(text) = 10
       /\ AllDigits(SubSeq(text, 1, 4)) /\ text[5] = "-"
       /\ AllDigits(SubSeq(text, 6, 7)) /\ text[8] = "-"
       /\ AllDigits(SubSeq(text, 9, 10))
    THEN LET y == DigitsToNat(SubSeq(text, 1, 4))
             m == DigitsToNat(SubSeq(text, 6, 7))
             dd == DigitsToNat(SubSeq(text, 9, 10))
         IN IF y >= 1 /\ m \in 1..12 /\ dd >= 1 /\ dd <= DaysIn(y, m)
            THEN DateOf(y, m, dd) ELSE PyNone
    ELSE PyNone

\* _parse_date(value); the formats with a time part need ":" and never match
\* the modelled texts
ParseDate(value) ==
    CASE value.t = "datetime" -> value
      [] value.t = "str" ->
            LET text == Strip(value.s)
            IN IF text = <<>> THEN PyNone
               ELSE IF ~IsNone(StrpDate8(text)) THEN StrpDate8(text)
               ELSE FromIsoDate(text)
      [] OTHER -> PyNone

\* _extract_date(row, keys)
ExtractDate(row, keys) ==
    LET hits == {k \in 1..Len(keys) :
                    /\ HasKey(row, keys[k])
                    /\ Truthy(row[keys[k]])
                    /\ ~IsNone(ParseDate(row[keys[k]]))}
    IN IF hits = {} THEN PyNone ELSE ParseDate(row[keys[MinOf(hits)]])

\* _min_date keeping the date it already has
MinDateKeepsCurrent(current, candidate) ==
    IF ~IsNone(current) THEN current ELSE candidate

\* _min_date(current, candidate)
MinDate(current, candidate) ==
    IF ~IsNone(current) /\ ~IsNone(candidate)
    THEN (IF candidate.n < current.n THEN candidate ELSE current)
    ELSE IF ~IsNone(candidate) THEN candidate ELSE current

\* _max_date(current, candidate)
MaxDate(current, candidate) ==
    IF ~IsNone(current) /\ ~IsNone(candidate)
    THEN (IF candidate.n > current.n THEN candidate ELSE current)
    ELSE IF ~IsNone(candidate) THEN candidate ELSE current

\* _safe_div returning 0.0 instead of None for a zero denominator
SafeDivZeroWhenUndefined(numerator, denominator) ==
    IF Truthy(denominator) /\ ~NumIsZero(denominator)
    THEN NumDiv(numerator, denominator)
    ELSE Num(0, 1)

\* _safe_div(numerator, denominator)
SafeDiv(numerator, denominator) ==
    IF Truthy(denominator) /\ ~NumIsZero(denominator)
    THEN NumDiv(numerator, denominator)
    ELSE PyNone

\* sum(samples) / len(samples)
RECURSIVE SumSeq(_)
SumSeq(s) == IF s = <<>> THEN Zero ELSE NumAdd(Head(s), SumSeq(Tail(s)))

Mean(samples) == NumDiv(SumSeq(samples), Int2Num(Len(samples)))

(***************************************************************************)
(* Aggregation                                                             *)
(***************************************************************************)
\* a dict key that has not been assigned / a local that is not bound
Unset == [t |-> "unset", n |-> 0, d |-> 1, s |-> <<>>]

\* a Python set of str is held as its sorted duplicate-free sequence
EmptySet == [kind |-> "set", elems |-> <<>>]
SetAdd(st, x) ==
    [kind |-> "set",
     elems |-> SortedStrs({st.elems[k] : k \in 1..Len(st.elems)} \cup {x})]

\* overall outside _aggregate_marketing_data: the name is not bound
UnboundOverall ==
    [total_records |-> -1, spend |-> Zero, revenue |-> Zero,
     conversions |-> Zero, clicks |-> Zero, cpc_samples |-> <<>>,
     start_date |-> PyNone, end_date |-> PyNone, roi |-> Unset, cpc |-> Unset]

\* NewOverall as a dict created once and shared by the calls: the totals of
\* the completed call are still in it
NewOverallShared(rows) ==
    IF prev.set
    THEN [prev.overall EXCEPT !.total_records = Len(rows), !.roi = Unset, !.cpc = Unset]
    ELSE [UnboundOverall EXCEPT !.total_records = Len(rows)]

\* NewOverall counting only the rows that name an entity of some level
NewOverallCountingNamedRows(rows) ==
    [total_records |->
        Len(SelectSeq(rows, LAMBDA r :
              \E sc \in DOMAIN SCOPE_CONFIG :
                 Truthy(GetFirstNonEmpty(r, SCOPE_CONFIG[sc].group_keys)))),
     spend |-> Zero, revenue |-> Zero,
     conversions |-> Zero, clicks |-> Zero, cpc_samples |-> <<>>,
     start_date |-> PyNone, end_date |-> PyNone, roi |-> Unset, cpc |-> Unset]

\* the initial value of the overall dict
NewOverall(rows) ==
    [total_records |-> Len(rows), spend |-> Zero, revenue |-> Zero,
     conversions |-> Zero, clicks |-> Zero, cpc_samples |-> <<>>,
     start_date |-> PyNone, end_date |-> PyNone, roi |-> Unset, cpc |-> Unset]

\* the default entry handed to aggregates.setdefault
NewEntry(key) ==
    [name |-> key, ids |-> EmptySet, spend |-> Zero, revenue |-> Zero,
     conversions |-> Zero, clicks |-> Zero, cpc_samples |-> <<>>,
     roi |-> Unset, cpc |-> Unset]

NoLocals ==
    [name |-> Unset, key |-> Unset, entity_id |-> Unset, spend |-> Unset,
     revenue |-> Unset, conversions |-> Unset, clicks |-> Unset,
     cpc_value |-> Unset]

IndexOfName(aggs, key) == {k \in 1..Len(aggs) : aggs[k].name = key}

\* aggregates.setdefault creating a new entry for every row
SetDefaultAlwaysNew(aggs, key) == Append(aggs, NewEntry(key))

\* aggregates.setdefault(key, {...}): the dict with the key present
SetDefault(aggs, key) ==
    IF IndexOfName(aggs, key) = {} THEN Append(aggs, NewEntry(key)) ELSE aggs

\* AddToEntry booking the row's revenue against the entity's spend
AddToEntryNetSpend(entry, entity_id, spend, revenue, conversions, clicks, cpc_value) ==
    [entry EXCEPT
        !.ids = IF Truthy(entity_id) THEN SetAdd(@, StrOf(entity_id)) ELSE @,
        !.spend = NumAdd(@, NumAdd(spend, Num(-revenue.n, revenue.d))),
        !.revenue = NumAdd(@, revenue),
        !.conversions = NumAdd(@, conversions),
        !.clicks = NumAdd(@, clicks),
        !.cpc_samples = IF Truthy(cpc_value) THEN Append(@, cpc_value) ELSE @]

\* entry after one row's metrics are added (the entry part of the loop body)
AddToEntry(entry, entity_id, spend, revenue, conversions, clicks, cpc_value) ==
    [entry EXCEPT
        !.ids = IF Truthy(entity_id) THEN SetAdd(@, StrOf(entity_id)) ELSE @,
        !.spend = NumAdd(@, spend),
        !.revenue = NumAdd(@, revenue),
        !.conversions = NumAdd(@, conversions),
        !.clicks = NumAdd(@, clicks),
        !.cpc_samples = IF Truthy(cpc_value) THEN Append(@, cpc_value) ELSE @]

\* AddToOverall with the revenue line adding the row's spend
AddToOverallRevenueFromSpend(ov, row, spend, revenue, conversions, clicks, cpc_value) ==
    [ov EXCEPT
        !.spend = NumAdd(@, spend),
        !.revenue = NumAdd(@, spend),
        !.conversions = NumAdd(@, conversions),
        !.clicks = NumAdd(@, clicks),
        !.cpc_samples = IF Truthy(cpc_value) THEN Append(@, cpc_value) ELSE @,
        !.start_date = MinDate(@, ExtractDate(row, DATE_START_KEYS)),
        !.end_date = MaxDate(@, ExtractDate(row, DATE_END_KEYS))]

\* AddToOverall folding the start candidates into the end of the range too
AddToOverallSymmetricDates(ov, row, spend, revenue, conversions, clicks, cpc_value) ==
    [ov EXCEPT
        !.spend = NumAdd(@, spend),
        !.revenue = NumAdd(@, revenue),
        !.conversions = NumAdd(@, conversions),
        !.clicks = NumAdd(@, clicks),
        !.cpc_samples = IF Truthy(cpc_value) THEN Append(@, cpc_value) ELSE @,
        !.start_date = MinDate(@, ExtractDate(row, DATE_START_KEYS \o DATE_END_KEYS)),
        !.end_date = MaxDate(@, ExtractDate(row, DATE_END_KEYS \o DATE_START_KEYS))]

\* overall after one row is folded in (the overall part of the loop body)
AddToOverall(ov, row, spend, revenue, conversions, clicks, cpc_value) ==
    [ov EXCEPT
        !.spend = NumAdd(@, spend),
        !.revenue = NumAdd(@, revenue),
        !.conversions = NumAdd(@, conversions),
        !.clicks = NumAdd(@, clicks),
        !.cpc_samples = IF Truthy(cpc_value) THEN Append(@, cpc_value) ELSE @,
        !.start_date = MinDate(@, ExtractDate(row, DATE_START_KEYS)),
        !.end_date = MaxDate(@, ExtractDate(row, DATE_END_KEYS))]

\* PostCpc with the two branches swapped: the samples win over spend/clicks
PostCpcSamplesFirst(e) ==
    IF e.cpc_samples # <<>> THEN Mean(e.cpc_samples)
    ELSE IF NumPositive(e.clicks) THEN SafeDiv(e.spend, e.clicks)
    ELSE PyNone

\* the cpc of the post-pass: spend/clicks, else the mean of the samples
PostCpc(e) ==
    IF NumPositive(e.clicks) THEN SafeDiv(e.spend, e.clicks)
    ELSE IF e.cpc_samples # <<>> THEN Mean(e.cpc_samples)
    ELSE PyNone

\* the post-pass on one entry
PostEntry(e) ==
    [e EXCEPT !.roi = SafeDiv(e.revenue, e.spend),
              !.cpc = PostCpc(e),
              !.ids = [kind |-> "list", elems |-> @.elems]]

\* the post-pass on overall
PostOverall(ov) ==
    [ov EXCEPT !.roi = SafeDiv(ov.revenue, ov.spend), !.cpc = PostCpc(ov)]

\* the loop body of _aggregate_marketing_data on one row, as a function of
\* the two dicts
FoldOne(acc, row, sc) ==
    LET config == SCOPE_CONFIG[sc]
        name == GetFirstNonEmpty(row, config.group_keys)
        key == Strip(StrOf(name))
        present == SetDefault(acc.aggregates, key)
        at == CHOOSE k \in IndexOfName(present, key) : TRUE
        entity_id == GetFirstNonEmpty(row, config.id_keys)
        spend == ExtractNumeric(row, SPEND_KEYS)
        revenue == ExtractNumeric(row, REVENUE_KEYS)
        conversions == ExtractNumeric(row, CONVERSION_KEYS)
        clicks == ExtractNumeric(row, CLICKS_KEYS)
        cpc_value == ExtractNumeric(row, CPC_KEYS)
    IN IF ~Truthy(name) THEN acc
       ELSE [aggregates |->
                [present EXCEPT ![at] =
                    AddToEntry(@, entity_id, spend, revenue, conversions, clicks, cpc_value)],
             overall |->
                AddToOverall(acc.overall, row, spend, revenue, conversions, clicks, cpc_value)]

\* the for loop over the rows
RECURSIVE FoldFrom(_, _, _)
FoldFrom(acc, rows, sc) ==
    IF rows = <<>> THEN acc ELSE FoldFrom(FoldOne(acc, Head(rows), sc), Tail(rows), sc)

\* _aggregate_marketing_data(rows, SCOPE_CONFIG[sc]) as a function: the pair
\* it returns
AggregateOf(rows, sc) ==
    LET f == FoldFrom([aggregates |-> <<>>, overall |-> NewOverall(rows)], rows, sc)
    IN [aggregates |-> [k \in 1..Len(f.aggregates) |-> PostEntry(f.aggregates[k])],
        overall |-> PostOverall(f.overall)]

(***************************************************************************)
(* Ranking                                                                 *)
(***************************************************************************)
\* entry.get(field, default): the default only when the key is missing
EntryGet(e, field, default) == IF e[field] = Unset THEN default ELSE e[field]

\* the sort key of build_marketing_report
SortKey(e) ==
    <<EntryGet(e, "revenue", Zero), EntryGet(e, "conversions", Zero),
      EntryGet(e, "roi", Zero)>>

\* comparing the two key tuples reaches None against a float: TypeError
KeyRaises(a, b) ==
    /\ SortKey(a)[1] = SortKey(b)[1]
    /\ SortKey(a)[2] = SortKey(b)[2]
    /\ IsNone(SortKey(a)[3]) # IsNone(SortKey(b)[3])

\* tuple a < tuple b, for tuples whose comparison does not raise
KeyLess(a, b) ==
    LET ka == SortKey(a)
        kb == SortKey(b)
    IN \/ NumLess(ka[1], kb[1])
       \/ ka[1] = kb[1] /\ NumLess(ka[2], kb[2])
       \/ /\ ka[1] = kb[1] /\ ka[2] = kb[2]
          /\ ~IsNone(ka[3]) /\ ~IsNone(kb[3]) /\ NumLess(ka[3], kb[3])

\* A comparison sort returns only after it has compared some pair of every
\* two groups of keys it must order, so sorted() raises exactly when two
\* entries tie on revenue and conversions with one roi None and one a float.
SortRaisesTypeError(seq) ==
    \E a \in 1..Len(seq), b \in 1..Len(seq) : KeyRaises(seq[a], seq[b])

\* InsertDesc placing x before the elements it ties with
InsertDescBeforeTies(seq, x) ==
    LET notgreater == {k \in 1..Len(seq) : ~KeyLess(x, seq[k])}
        at == IF notgreater = {} THEN Len(seq) + 1 ELSE MinOf(notgreater)
    IN SubSeq(seq, 1, at - 1) \o <<x>> \o SubSeq(seq, at, Len(seq))

\* x placed after every element that is not smaller than it (stable)
InsertDesc(seq, x) ==
    LET smaller == {k \in 1..Len(seq) : KeyLess(seq[k], x)}
        at == IF smaller = {} THEN Len(seq) + 1 ELSE MinOf(smaller)
    IN SubSeq(seq, 1, at - 1) \o <<x>> \o SubSeq(seq, at, Len(seq))

\* sorted(seq, key=..., reverse=True): descending and stable
RECURSIVE SortedDesc(_)
SortedDesc(seq) ==
    IF seq = <<>> THEN <<>>
    ELSE InsertDesc(SortedDesc(SubSeq(seq, 1, Len(seq) - 1)), seq[Len(seq)])

(***************************************************************************)
(* Rendering.  A formatted text is the record of its format and of the     *)
(* number its digits spell (hundredths for the two-decimal formats).       *)
(***************************************************************************)
TopN == 3

\* n/d scaled by k and rounded to the nearest integer, ties to even
RoundScaled(v, k) ==
    LET q == (v.n * k) \div v.d
        r == (v.n * k) - q * v.d
    IN IF 2 * r < v.d THEN q
       ELSE IF 2 * r > v.d THEN q + 1
       ELSE IF q % 2 = 0 THEN q ELSE q + 1

Txt(f, v) == [f |-> f, v |-> v]
NotAvailable == Txt("n/d", 0)

\* _format_currency(value): "$" and two decimals, "$0.00" for None
FormatCurrency(value) ==
    IF value.t # "num" THEN Txt("currency", 0)
    ELSE Txt("currency", RoundScaled(value, 100))

\* _format_number(value): an integer when within 1e-6 of one, else two decimals
FormatNumber(value) ==
    IF value.t # "num" THEN Txt("int", 0)
    ELSE LET r == RoundScaled(value, 1)
         IN IF Abs(value.n - r * value.d) * 1000000 < value.d
            THEN Txt("int", r)
            ELSE Txt("dec2", RoundScaled(value, 100))

\* RoasText printing every defined ratio, zero and negative ones too
RoasTextWhenDefined(roas) ==
    IF roas.t = "num" THEN Txt("roas", RoundScaled(roas, 100)) ELSE NotAvailable

\* f"ROAS {roas:.2f}x" if roas and roas > 0 else "ROAS n/d"
RoasText(roas) ==
    IF Truthy(roas) /\ NumPositive(roas) THEN Txt("roas", RoundScaled(roas, 100))
    ELSE NotAvailable

\* _format_currency(cpc) if cpc and cpc > 0 else "n/d"
CpcText(cpc) ==
    IF Truthy(cpc) /\ NumPositive(cpc) THEN FormatCurrency(cpc) ELSE NotAvailable

\* _format_date_range(start, end)
FormatDateRange(start, end) ==
    IF ~IsNone(start) /\ ~IsNone(end) THEN [f |-> "range", a |-> start.n, b |-> end.n]
    ELSE IF ~IsNone(start) THEN [f |-> "desde", a |-> start.n, b |-> 0]
    ELSE IF ~IsNone(end) THEN [f |-> "hasta", a |-> 0, b |-> end.n]
    ELSE [f |-> "", a |-> 0, b |-> 0]

\* str.capitalize() on the labels of SCOPE_CONFIG
Capitalize(label) ==
    CASE label = "campañas" -> "Campañas"
      [] label = "campaña" -> "Campaña"
      [] label = "conjuntos de anuncios" -> "Conjuntos de anuncios"
      [] label = "conjunto de anuncios" -> "Conjunto de anuncios"
      [] label = "anuncios" -> "Anuncios"
      [] label = "anuncio" -> "Anuncio"
      [] OTHER -> label

\* _build_header(config, overall)
BuildHeader(config, ov) ==
    [sec |-> "header", label |-> Capitalize(config.label),
     range |-> FormatDateRange(ov.start_date, ov.end_date)]

\* _build_summary_lines(overall)
BuildSummaryLines(ov) ==
    [sec |-> "summary", spend |-> FormatCurrency(ov.spend),
     revenue |-> FormatCurrency(ov.revenue), roas |-> RoasText(ov.roi),
     conversions |-> FormatNumber(ov.conversions), cpc |-> CpcText(ov.cpc)]

\* _build_standout(best, config)
BuildStandout(best, config) ==
    [sec |-> "standout", label |-> Capitalize(config.singular), name |-> best.name,
     revenue |-> FormatCurrency(best.revenue), roas |-> RoasText(best.roi),
     conversions |-> FormatNumber(best.conversions), cpc |-> CpcText(best.cpc),
     spend |-> FormatCurrency(best.spend), ids |-> best.ids.elems]

\* _build_top_list(top_entities, config)
BuildTopList(top, config) ==
    [sec |-> "top_list", count |-> Len(top), label |-> config.label,
     items |-> [k \in 1..Len(top) |->
                  [idx |-> k, name |-> top[k].name,
                   revenue |-> FormatCurrency(top[k].revenue),
                   conversions |-> FormatNumber(top[k].conversions),
                   roas |-> RoasText(top[k].roi), cpc |-> CpcText(top[k].cpc),
                   spend |-> FormatCurrency(top[k].spend)]]]

\* _build_coverage(overall): <<>> stands for None
BuildCoverage(ov) ==
    IF ov.total_records <= 0 THEN <<>>
    ELSE <<[sec |-> "coverage", total |-> ov.total_records,
            range |-> FormatDateRange(ov.start_date, ov.end_date)]>>

ClosingPrompt == [sec |-> "closing"]

\* the empty string and the "\n\n" that join() puts between two sections
EmptyText == [sec |-> ""]
BlankLine == [sec |-> "blank_line"]

\* filter(None, sections): the sections that are not empty strings
FilterNone(parts) == SelectSeq(parts, LAMBDA part : part # EmptyText)

\* "\n\n".join(parts): the parts with a blank line between neighbours
RECURSIVE JoinBlankLine(_)
JoinBlankLine(parts) ==
    IF Len(parts) <= 1 THEN parts
    ELSE <<Head(parts), BlankLine>> \o JoinBlankLine(Tail(parts))

\* ReportSections appending the closing prompt before the coverage footnote
ReportSectionsClosingFirst(config, ov, ranked) ==
    <<BuildHeader(config, ov), BuildSummaryLines(ov),
      BuildStandout(ranked[1], config),
      BuildTopList(SubSeq(ranked, 1, IF Len(ranked) < TopN THEN Len(ranked) ELSE TopN),
                   config),
      ClosingPrompt>>
    \o BuildCoverage(ov)

\* ReportSections listing every ranked entity instead of the first three
ReportSectionsNoCap(config, ov, ranked) ==
    <<BuildHeader(config, ov), BuildSummaryLines(ov),
      BuildStandout(ranked[1], config), BuildTopList(ranked, config)>>
    \o BuildCoverage(ov) \o <<ClosingPrompt>>

\* the sections of a full report, in the order they are joined
ReportSections(config, ov, ranked) ==
    LET best_entity == ranked[1]
        top_entities == SubSeq(ranked, 1, IF Len(ranked) < TopN THEN Len(ranked) ELSE TopN)
    IN <<BuildHeader(config, ov), BuildSummaryLines(ov),
         BuildStandout(best_entity, config), BuildTopList(top_entities, config)>>
       \o BuildCoverage(ov) \o <<ClosingPrompt>>

NoResult == [kind |-> "none", label |-> "", sections |-> <<>>]
UnknownScopeMessage == [kind |-> "unknown_scope", label |-> "", sections |-> <<>>]
NoDataMessage(config) == [kind |-> "no_data", label |-> config.label, sections |-> <<>>]
\* the returned text: the sections that are not empty, joined by blank lines
Report(config, ov, ranked) ==
    [kind |-> "report", label |-> config.label,
     sections |-> JoinBlankLine(FilterNone(ReportSections(config, ov, ranked)))]
RaisedTypeError == [kind |-> "TypeError", label |-> "", sections |-> <<>>]

(***************************************************************************)
(* Scope normalisation: SCOPE_ALIASES, _clean_text and normalize_scope     *)
(***************************************************************************)
\* an entry whose canonical name drops the plural of "adsets"
AliasSingular(chars, canonical) ==
  [alias |-> chars, canonical |-> IF canonical = "adsets" THEN "adset" ELSE canonical]

\* an entry of SCOPE_ALIASES
Alias(chars, canonical) == [alias |-> chars, canonical |-> canonical]

\* SCOPE_ALIASES in the order of the dict literal
SCOPE_ALIASES ==
    <<Alias(<<"c", "a", "m", "p", "a", "i", "g", "n">>, "campaigns"),
      Alias(<<"c", "a", "m", "p", "a", "i", "g", "n", "s">>, "campaigns"),
      Alias(<<"c", "a", "m", "p", "a", "n", "a">>, "campaigns"),
      Alias(<<"c", "a", "m", "p", "a", "n", "a", "s">>, "campaigns"),
      Alias(<<"c", "a", "m", "p", "a", "n", "a", " ", "p", "u", "b", "l", "i", "c",
          "i", "t", "a", "r", "i", "a">>, "campaigns"),
      Alias(<<"c", "a", "m", "p", "a", "n", "a", "s", " ", "p", "u", "b", "l", "i",
          "c", "i", "t", "a", "r", "i", "a", "s">>, "campaigns"),
      Alias(<<"n", "i", "v", "e", "l", " ", "1">>, "campaigns"),
      Alias(<<"a", "d", "s", "e", "t">>, "adsets"),
      Alias(<<"a", "d", "s", "e", "t", "s">>, "adsets"),
      Alias(<<"c", "o", "n", "j", "u", "n", "t", "o">>, "adsets"),
      Alias(<<"c", "o", "n", "j", "u", "n", "t", "o", "s">>, "adsets"),
      Alias(<<"c", "o", "n", "j", "u", "n", "t", "o", " ", "d", "e", " ", "a", "n",
          "u", "n", "c", "i", "o", "s">>, "adsets"),
      Alias(<<"c", "o", "n", "j", "u", "n", "t", "o", "s", " ", "d", "e", " ", "a",
          "n", "u", "n", "c", "i", "o", "s">>, "adsets"),
      Alias(<<"n", "i", "v", "e", "l", " ", "2">>, "adsets"),
      Alias(<<"a", "d">>, "ads"),
      Alias(<<"a", "d", "s">>, "ads"),
      Alias(<<"a", "n", "u", "n", "c", "i", "o">>, "ads"),
      Alias(<<"a", "n", "u", "n", "c", "i", "o", "s">>, "ads"),
      Alias(<<"n", "i", "v", "e", "l", " ", "3">>, "ads")>>

\* U+0303 COMBINING TILDE and U+0301 COMBINING ACUTE ACCENT
CombiningTilde == "U+0303"
CombiningAcute == "U+0301"

\* unicodedata.combining(ch) != 0
IsCombining(ch) == ch \in {CombiningTilde, CombiningAcute}

\* unicodedata.normalize("NFKD", ch) for one character
Decompose(ch) ==
    CASE ch = "ñ" -> <<"n", CombiningTilde>>
      [] ch = "Ñ" -> <<"N", CombiningTilde>>
      [] ch = "á" -> <<"a", CombiningAcute>>
      [] OTHER -> <<ch>>

\* unicodedata.normalize("NFKD", value)
RECURSIVE Nfkd(_)
Nfkd(value) == IF value = <<>> THEN <<>> ELSE Decompose(Head(value)) \o Nfkd(Tail(value))

UpperCase == <<"A", "C", "I", "N", "O", "S", "U">>
LowerCase == <<"a", "c", "i", "n", "o", "s", "u">>

\* str.lower() for one character (the upper case letters of the modelled texts)
LowerChar(ch) ==
    IF \E k \in 1..Len(UpperCase) : UpperCase[k] = ch
    THEN LowerCase[CHOOSE k \in 1..Len(UpperCase) : UpperCase[k] = ch]
    ELSE ch

\* str.lower()
Lower(value) == [k \in 1..Len(value) |-> LowerChar(value[k])]

\* " ".join(text.split()): the runs of blanks inside the text become one
\* blank, those at its ends disappear (the space is the modelled blank)
RECURSIVE CollapseBlanks(_)
CollapseBlanks(text) ==
    LET t == LStrip(text)
    IN IF t = <<>> THEN <<>>
       ELSE LET blanks == {k \in 1..Len(t) : IsSpace(t[k])}
                stop == IF blanks = {} THEN Len(t) + 1 ELSE MinOf(blanks)
                rest == CollapseBlanks(SubSeq(t, stop, Len(t)))
            IN SubSeq(t, 1, stop - 1) \o (IF rest = <<>> THEN <<>> ELSE <<" ">> \o rest)

\* _clean_text(value)
CleanText(value) ==
    LET normalized == Nfkd(value)
        stripped == SelectSeq(normalized, LAMBDA ch : ~IsCombining(ch))
    IN CollapseBlanks(Strip(Lower(stripped)))

\* alias in cleaned written as cleaned.startswith(alias)
IsPrefixOnly(alias, cleaned) ==
    Len(alias) <= Len(cleaned) /\ SubSeq(cleaned, 1, Len(alias)) = alias

\* alias in cleaned: the alias occurs somewhere in the text
IsSubstring(alias, cleaned) ==
    \E k \in 1..(Len(cleaned) - Len(alias) + 1) :
        SubSeq(cleaned, k, k + Len(alias) - 1) = alias

\* the entries of SCOPE_ALIASES whose key is the text
ExactAliases(cleaned) == {k \in 1..Len(SCOPE_ALIASES) : SCOPE_ALIASES[k].alias = cleaned}

\* normalize_scope(scope) as a function; "None" stands for None
NormalizeScope(text) ==
    LET cleaned == CleanText(text)
        hits == {k \in 1..Len(SCOPE_ALIASES) : IsSubstring(SCOPE_ALIASES[k].alias, cleaned)}
    IN IF text = <<>> THEN "None"
       ELSE IF cleaned = <<>> THEN "None"
       ELSE IF ExactAliases(cleaned) # {}
            THEN SCOPE_ALIASES[CHOOSE k \in ExactAliases(cleaned) : TRUE].canonical
       ELSE IF hits # {} THEN SCOPE_ALIASES[MinOf(hits)].canonical
       ELSE "None"

\* the pieces a caller's text is made of: phrases, words in upper case and
\* with diacritics, blanks
TextPieces ==
    {<<"C", "o", "n", "j", "u", "n", "t", "o", "s", " ", "d", "e", " ", "A", "n",
      "u", "n", "c", "i", "o", "s">>,
      <<"b", "a", "n", "a", "n", "a">>,
      <<"C", "a", "m", "p", "a", "ñ", "a">>,
      <<"A", "N", "U", "N", "C", "I", "O", "S">>,
      <<"n", "i", "v", "e", "l">>,
      <<" ", "2">>,
      <<" ", " ", "3">>,
      <<"n", "a", "d", "a">>,
      <<" ">>,
      <<"s">>}

RECURSIVE Concat(_)
Concat(parts) == IF parts = <<>> THEN <<>> ELSE Head(parts) \o Concat(Tail(parts))

\* the texts handed to normalize_scope: up to MaxPieces pieces in a row
ScopeTexts == {Concat(parts) : parts \in UNION {[1..n -> TextPieces] : n \in 0..MaxPieces}}

(***************************************************************************)
(* Inputs: the rows and scopes the caller may hand to build_marketing_report*)
(***************************************************************************)
S(chars) == PyStr(chars)
N(k) == Int2Num(k)

RowPool ==
    { \* fully populated rows of two campaigns
      ("campaign_name" :> S(<<"A">>)) @@ ("campaign_id" :> N(7)) @@ ("spend" :> N(10))
        @@ ("revenue" :> N(30)) @@ ("conversions" :> N(2)) @@ ("clicks" :> N(5))
        @@ ("start_date" :> PyDate(20240105)) @@ ("end_date" :> PyDate(20240110)),
      ("campaign_name" :> S(<<"B">>)) @@ ("spend" :> N(5)) @@ ("revenue" :> N(30))
        @@ ("conversions" :> N(2)) @@ ("fecha" :> S(<<"2", "0", "2", "4", "-", "0", "1", "-", "0", "3">>)),
      ("campaign_name" :> S(<<"B">>)) @@ ("spend" :> N(5)) @@ ("revenue" :> N(30))
        @@ ("conversions" :> N(3)) @@ ("cpc" :> N(9)) @@ ("clicks" :> N(2)),
      \* rows without any metric, with spend only, with revenue only
      ("campaign_name" :> S(<<"A">>)),
      ("campaign_name" :> S(<<"B">>)) @@ ("spend" :> N(10))
        @@ ("updated_at" :> PyDate(20240110)),
      ("campaign_name" :> S(<<"B">>)) @@ ("revenue" :> N(20)) @@ ("id_campaign" :> S(<<"x", "1">>)),
      ("campaign_name" :> S(<<"A">>)) @@ ("spend" :> N(-5)) @@ ("revenue" :> N(10)),
      ("campaign_name" :> S(<<"A">>)) @@ ("spend" :> N(10)) @@ ("revenue" :> N(20))
        @@ ("fecha" :> S(<<"2", "0", "2", "4", "-", "1", "-", "1", "5">>)),
      \* rows that resolve no campaign name
      ("spend" :> N(5)) @@ ("revenue" :> N(7)) @@ ("conversions" :> N(1))
        @@ ("clicks" :> N(1)) @@ ("cpc" :> N(2)) @@ ("start_date" :> PyDate(20240101)),
      ("campaign_name" :> S(<<>>)) @@ ("spend" :> N(3)) @@ ("campaign_id" :> N(8)),
      \* several aliases of one metric
      ("campaign_name" :> S(<<"A">>)) @@ ("revenue" :> N(100)) @@ ("ingresos" :> N(200))
        @@ ("spend" :> N(50)),
      ("campaign_name" :> S(<<"A">>)) @@ ("revenue" :> S(<<"a", "b", "c">>))
        @@ ("ingresos" :> N(200)),
      ("campaign_name" :> S(<<"B">>)) @@ ("revenue" :> PyNone) @@ ("ingresos" :> N(200))
        @@ ("amount_spent" :> PyBool(TRUE)) @@ ("spend" :> N(4)),
      \* several candidates of the grouping name and of the identifier
      ("campaign_name" :> S(<<>>)) @@ ("campaign" :> S(<<"B">>)) @@ ("spend" :> N(1))
        @@ ("campaign_id" :> S(<<>>)) @@ ("id_campaign" :> S(<<"x", "1">>)),
      ("campaign_name" :> PyNone) @@ ("campaign" :> S(<<"A">>)) @@ ("revenue" :> N(1)),
      ("campaign_name" :> N(0)) @@ ("name_campaign" :> S(<<" ", "A", " ">>))
        @@ ("campaign" :> S(<<"B">>)) @@ ("clicks" :> N(4)),
      \* directly reported CPC without clicks
      ("campaign_name" :> S(<<"A">>)) @@ ("cpc" :> N(3)),
      ("campaign_name" :> S(<<"A">>)) @@ ("cpc" :> N(6)) @@ ("spend" :> N(4))
        @@ ("clicks" :> N(0)),
      \* metrics held in strings
      ("campaign_name" :> S(<<"B">>))
        @@ ("spend" :> S(<<"$", "1", ",", "2", "3", "4", ".", "5", "0">>))
        @@ ("conversions" :> S(<<"1", "2", "%">>)) @@ ("revenue" :> S(<<" ", "7", " ">>)),
      \* a row whose metric cells are all unusable
      ("campaign_name" :> S(<<"A">>)) @@ ("spend" :> PyNonFinite)
        @@ ("revenue" :> S(<<" ">>)) @@ ("conversions" :> PyBool(TRUE))
        @@ ("clicks" :> PyNone) @@ ("cpc" :> S(<<"a", "b", "c">>)),
      \* a row of the ads level
      ("ad_name" :> S(<<"A">>)) @@ ("ad_id" :> N(9)) @@ ("spend" :> N(1))
        @@ ("revenue" :> N(2)) @@ ("campaign_name" :> S(<<"B">>)) }

\* a small pool for runs that compare successive calls
SmallPool ==
    { ("campaign_name" :> S(<<"A">>)) @@ ("revenue" :> N(3)) @@ ("cpc" :> N(2))
        @@ ("campaign_id" :> N(7)),
      ("campaign_name" :> S(<<"B">>)) @@ ("spend" :> N(2)) @@ ("revenue" :> N(3)),
      ("spend" :> N(5)) @@ ("ad_name" :> S(<<"A">>)) }

\* rows of four campaigns for runs that explore the ranking: A and B tie on
\* revenue, conversions and return ratio, B and D tie with no return ratio
RankPool ==
    { ("campaign_name" :> S(<<"A">>)) @@ ("revenue" :> N(10)) @@ ("conversions" :> N(1))
        @@ ("spend" :> N(5)) @@ ("cpc" :> N(4)) @@ ("campaign_id" :> N(7))
        @@ ("start_date" :> PyDate(20240105)),
      ("campaign_name" :> S(<<"B">>)) @@ ("revenue" :> N(10)) @@ ("conversions" :> N(1))
        @@ ("spend" :> N(5)) @@ ("clicks" :> N(2))
        @@ ("fecha" :> S(<<"2", "0", "2", "4", "-", "0", "1", "-", "0", "3">>)),
      ("campaign_name" :> S(<<"C">>)) @@ ("revenue" :> N(20)) @@ ("spend" :> N(4))
        @@ ("campaign_id" :> S(<<"x", "1">>)) @@ ("end_date" :> PyDate(20240110)),
      ("campaign_name" :> S(<<"D">>)) @@ ("cpc" :> N(2)),
      ("campaign_name" :> S(<<"B">>)) @@ ("clicks" :> N(1))
        @@ ("id_campaign" :> S(<<"x", "1">>)) @@ ("end_date" :> PyDate(20240120)),
      ("campaign_name" :> S(<<"A">>)) @@ ("spend" :> N(5)) @@ ("cpc" :> N(3))
        @@ ("campaign_id" :> N(8)) @@ ("start_date" :> PyDate(20240101)),
      ("campaign_name" :> S(<<>>)) @@ ("spend" :> N(5))
        @@ ("start_date" :> PyDate(20231201)) }

\* rows whose campaign names differ in surrounding blanks, in case and in
\* type only
GroupPool ==
    { ("campaign_name" :> S(<<"A">>)) @@ ("spend" :> N(10)) @@ ("revenue" :> N(20)),
      ("campaign_name" :> S(<<" ", "A", " ">>)) @@ ("spend" :> N(5)),
      ("campaign_name" :> S(<<"A", " ">>)) @@ ("campaign_id" :> N(7)) @@ ("clicks" :> N(2)),
      ("campaign_name" :> S(<<"a">>)) @@ ("revenue" :> N(20)),
      ("campaign_name" :> N(7)) @@ ("revenue" :> N(5)) @@ ("spend" :> N(1)),
      ("campaign_name" :> S(<<>>)) @@ ("campaign" :> S(<<"7", " ">>)) @@ ("spend" :> N(2)),
      \* a name of blanks only, and a row without a name
      ("campaign_name" :> S(<<" ">>)) @@ ("spend" :> N(4)),
      ("spend" :> N(3)) @@ ("campaign_id" :> N(8)) }

Scopes == {"campaigns", "ads", "banana"}

PoolOf(m) ==
    CASE m = "repeat" -> SmallPool
      [] m \in {"rank", "perm"} -> RankPool
      [] m = "group" -> GroupPool
      [] OTHER -> RowPool

ScopesOf(m) == IF m \in {"rank", "perm", "group"} THEN {"campaigns", "banana"} ELSE Scopes

MaxLenOf(m) ==
    CASE m = "rank" -> MaxRankRows
      [] m = "perm" -> MaxPermRows
      [] m = "group" -> MaxGroupRows
      [] OTHER -> MaxRows

RowLists(m) == UNION {[1..n -> PoolOf(m)] : n \in 0..MaxLenOf(m)}

(***************************************************************************)
(* The monthly sales insight of app/bot/context_builder.py                 *)
(*                                                                         *)
(* A datetime.date is a value of its own: PyDate stands for a              *)
(* datetime.datetime (its time of day is not modelled), PyDay for a        *)
(* datetime.date.  Revenues are finite numbers; float("nan") is not among  *)
(* the modelled cells of a sales row.                                      *)
(***************************************************************************)
PyDay(day) == [t |-> "date", n |-> day, d |-> 1, s |-> <<>>]

NumSub(a, b) == NumAdd(a, Num(-b.n, b.d))
NumMul(a, b) == Num(a.n * b.n, a.d * b.d)

MONTH_KEYS == <<"month", "mes", "fecha", "dia">>
SALES_REVENUE_KEYS == <<"revenue", "ingresos", "precio_venta", "precio_total", "revenue_bruto">>
COST_KEYS == <<"costs", "costo", "gastos_totales", "costos">>
PROFIT_KEYS == <<"profit", "utilidad", "ganancia">>
MARGIN_KEYS == <<"margin_pct", "margen_pct", "margen">>

\* _pick_value(row, candidates, default): the first candidate that is a key
\* of the row with a value other than None
PickValue(row, candidates, default) ==
    LET hits == {k \in 1..Len(candidates) :
                    HasKey(row, candidates[k]) /\ ~IsNone(row[candidates[k]])}
    IN IF hits = {} THEN default ELSE row[candidates[MinOf(hits)]]

\* _safe_float(value): float(value), and 0.0 for None and for what float()
\* rejects (TypeError for a date, ValueError for a text that is no number)
SafeFloat(value) ==
    CASE value.t = "none" -> Zero
      [] value.t = "num" -> value
      [] value.t = "bool" -> Int2Num(value.n)
      [] value.t = "str" ->
            LET parsed == ParseFloat(Strip(value.s))
            IN IF IsNone(parsed) THEN Zero ELSE parsed
      [] OTHER -> Zero

\* the positions of the separator in the text
SepsOf(text, sep) == {k \in 1..Len(text) : text[k] = sep}

MaxOf(nats) == CHOOSE x \in nats : \A y \in nats : x >= y

\* the strptime directive %Y: exactly four digits, and a year date() accepts
YearField(part) ==
    IF Len(part) = 4 /\ AllDigits(part) THEN DigitsToNat(part) ELSE 0

\* the strptime directives %m (top 12) and %d (top 31): one or two digits
\* spelling a number from 1 to top; 0 stands for no match
SmallField(part, top) ==
    IF Len(part) \in {1, 2} /\ AllDigits(part) /\ DigitsToNat(part) \in 1..top
    THEN DigitsToNat(part) ELSE 0

\* datetime.strptime(text, fmt).date() for the three-field formats
\* "%Y-%m-%d", "%Y/%m/%d" (dayFirst FALSE) and "%d-%m-%Y" (dayFirst TRUE);
\* the whole text has to match and the day has to exist in the month
StrpDate(text, sep, dayFirst) ==
    IF Cardinality(SepsOf(text, sep)) # 2 THEN PyNone
    ELSE LET a == MinOf(SepsOf(text, sep))
             b == MaxOf(SepsOf(text, sep))
             head == SubSeq(text, 1, a - 1)
             last == SubSeq(text, b + 1, Len(text))
             y == YearField(IF dayFirst THEN last ELSE head)
             m == SmallField(SubSeq(text, a + 1, b - 1), 12)
             dd == SmallField(IF dayFirst THEN head ELSE last, 31)
         IN IF y >= 1 /\ m >= 1 /\ dd >= 1 /\ dd <= DaysIn(y, m)
            THEN PyDay(y * 10000 + m * 100 + dd) ELSE PyNone

\* datetime.strptime(value[:7], "%Y-%m").date()
StrpMonth(value) ==
    LET text == SubSeq(value, 1, IF Len(value) < 7 THEN Len(value) ELSE 7)
    IN IF Cardinality(SepsOf(text, "-")) # 1 THEN PyNone
       ELSE LET a == MinOf(SepsOf(text, "-"))
                y == YearField(SubSeq(text, 1, a - 1))
                m == SmallField(SubSeq(text, a + 1, Len(text)), 12)
            IN IF y >= 1 /\ m >= 1 THEN PyDay(y * 10000 + m * 100 + 1) ELSE PyNone

\* value.replace(day=1) on the encoding year*10000 + month*100 + day
FirstOfMonth(day) == (day \div 100) * 100 + 1

\* _parse_month_value(value).  A datetime is an instance of date, so the
\* isinstance(value, date) branch takes it and replace(day=1) returns a
\* datetime; the isinstance(value, datetime) branch is never reached.
ParseMonthValue(value) ==
    CASE value.t = "none" -> PyNone
      [] value.t = "date" -> PyDay(FirstOfMonth(value.n))
      [] value.t = "datetime" -> PyDate(FirstOfMonth(value.n))
      [] value.t = "str" ->
            LET text == Strip(value.s)
                ymd == StrpDate(text, "-", FALSE)
                slashed == StrpDate(text, "/", FALSE)
                dmy == StrpDate(text, "-", TRUE)
                ym == StrpMonth(text)
                parsed == IF ~IsNone(ymd) THEN ymd
                          ELSE IF ~IsNone(slashed) THEN slashed
                          ELSE IF ~IsNone(dmy) THEN dmy
                          ELSE ym
            IN IF IsNone(parsed) THEN PyNone ELSE PyDay(FirstOfMonth(parsed.n))
      [] OTHER -> PyNone

\* a < b between two month values raises TypeError when one is a date and
\* the other a datetime
MonthLessRaises(a, b) == a.t # b.t
MonthLess(a, b) == a.n < b.n

\* what the loop body computes from one row (lines 257-287)
SalesRowValues(row) ==
    LET month_date == ParseMonthValue(PickValue(row, MONTH_KEYS, PyNone))
        revenue == SafeFloat(PickValue(row, SALES_REVENUE_KEYS, Zero))
        costs == SafeFloat(PickValue(row, COST_KEYS, Zero))
        profit == SafeFloat(PickValue(row, PROFIT_KEYS, NumSub(revenue, costs)))
        margin_raw == PickValue(row, MARGIN_KEYS, PyNone)
        reported == IF ~IsNone(margin_raw) THEN SafeFloat(margin_raw) ELSE PyNone
        margin_pct == IF IsNone(reported) /\ Truthy(revenue)
                      THEN NumMul(NumDiv(profit, revenue), Int2Num(100))
                      ELSE reported
    IN [month_date |-> month_date, revenue |-> revenue, margin_pct |-> margin_pct]

\* _format_month(value): strftime("%Y-%m"), the number year*100 + month
\* whose digits the label spells
FormatMonth(value) == Txt("month", value.n \div 100)

\* _format_currency of context_builder: "$" and the value rounded to an
\* integer with "." as the thousands separator
SalesCurrency(value) == Txt("pesos", RoundScaled(value, 1))

\* f"{best_margin:.1f}%": tenths of a percent
MarginText(margin) ==
    IF IsNone(margin) THEN Txt("", 0) ELSE Txt("pct1", RoundScaled(margin, 10))

\* the line of the best month (lines 299-309), <<>> when best_month is None
BestMonthLine(f) ==
    IF IsNone(f.best_month) THEN <<>>
    ELSE <<[kind |-> "best_month", month |-> FormatMonth(f.best_month),
            revenue |-> SalesCurrency(f.best_revenue),
            margin |-> MarginText(f.best_margin)]>>

\* the line of the first record (lines 311-314)
FirstRecordLine(f) ==
    IF IsNone(f.earliest_month) THEN <<>>
    ELSE <<[kind |-> "first_record", month |-> FormatMonth(f.earliest_month),
            revenue |-> Txt("", 0), margin |-> Txt("", 0)]>>

\* insights_lines holding the line of the best month alone
InsightLinesBestOnly(f) == BestMonthLine(f)

\* insights_lines at line 316
InsightLines(f) == BestMonthLine(f) \o FirstRecordLine(f)

NoInsight == [kind |-> "", lines |-> <<>>]
\* return None
InsightNone == [kind |-> "None", lines |-> <<>>]
\* return "INSIGHTS HISTÓRICOS:\n" + the lines
InsightText(lines) == [kind |-> "text", lines |-> lines]
\* the TypeError of the comparison leaves the function
InsightRaised == [kind |-> "TypeError", lines |-> <<>>]

\* the rows of a monthly sales report
SalesPool ==
    { ("month" :> S(<<"2", "0", "2", "4", "-", "0", "1", "-", "0", "5">>))
        @@ ("revenue" :> N(10)) @@ ("costs" :> N(4)),
      ("mes" :> S(<<"2", "0", "2", "4", "-", "0", "2">>))
        @@ ("ingresos" :> N(30)) @@ ("margen" :> N(5)),
      \* the same revenue as the row before, a month later
      ("fecha" :> PyDay(20240315)) @@ ("revenue" :> N(30)),
      \* rows without a parseable month, with the largest revenues
      ("month" :> S(<<"a", "b", "c">>)) @@ ("revenue" :> N(99)),
      ("revenue" :> N(50)),
      \* the earliest month, with a negative revenue
      ("month" :> S(<<"0", "5", "-", "1", "2", "-", "2", "0", "2", "3">>))
        @@ ("revenue" :> N(-5)),
      \* a datetime, and a revenue float() rejects
      ("dia" :> PyDate(20240402)) @@ ("revenue" :> S(<<"$", "1", ",", "2", "0", "0">>)),
      \* month is None: the next candidate decides
      ("month" :> PyNone)
        @@ ("fecha" :> S(<<"2", "0", "2", "4", "/", "0", "3", "/", "0", "1">>))
        @@ ("revenue" :> N(20)) @@ ("profit" :> N(5)) }

SalesLists == UNION {[1..n -> SalesPool] : n \in 0..MaxSalesRows}

\* no call of _build_sales_insights is in progress; the values of the locals
\* are those of lines 251-254
NoSales ==
    [pc |-> "idle", records |-> <<>>, i |-> 0, best_month |-> PyNone,
     earliest_month |-> PyNone, best_revenue |-> Int2Num(-1), best_margin |-> PyNone,
     result |-> NoInsight]

(***************************************************************************)
(* generate_marketing_performance_report                                   *)
(***************************************************************************)
\* the canonical scope name as the Python string handed on by the callers
ScopeChars(canonical) ==
  CASE canonical = "campaigns" -> <<"c","a","m","p","a","i","g","n","s">>
    [] canonical = "adsets" -> <<"a","d","s","e","t","s">>
    [] canonical = "ads" -> <<"a","d","s">>
    [] OTHER -> <<"?">>

\* what get_marketing_performance and build_marketing_report can do once
\* the scope is known
FetchOutcomes == {"query_raises", "no_rows", "rows", "build_raises"}

\* generate_marketing_performance_report: which reply a scope text gets
MarketingAnswer(scopeText, fetched) ==
  LET normalized == NormalizeScope(scopeText)
  IN IF normalized = "None" THEN "need_level"
     ELSE CASE fetched = "query_raises" -> "query_failed"
            [] fetched = "no_rows" -> "no_records"
            [] fetched = "build_raises" -> "build_failed"
            [] OTHER -> IF normalized \in DOMAIN SCOPE_CONFIG
                          THEN "report" ELSE "unknown_scope"

(***************************************************************************)
(* webhook_verify (GET /webhook)                                           *)
(***************************************************************************)
\* no request is being handled
NoHook ==
    [pc |-> "idle", mode |-> "None", token |-> "None", challenge |-> "None",
     verified |-> "", error |-> "", status |-> 0, body |-> ""]

\* request.query_params.get(...) of the three hub.* parameters; "None" is the
\* missing parameter
HubModes == {"subscribe", "unsubscribe", "None"}
HubTokens == {"secret", "wrong", "None"}
HubChallenges == {"1158201444", "abc", "", "None"}

\* Response(content=challenge, media_type="text/plain")
ChallengeResponse(h) ==
    [h EXCEPT !.pc = "done", !.status = 200,
              !.body = IF h.challenge = "None" THEN "" ELSE h.challenge]

\* the except clause of webhook_verify: HTTPException(status_code=500, detail=str(e))
VerifyExcept(h) == [h EXCEPT !.pc = "done", !.status = 500, !.body = h.error]

(***************************************************************************)
(* ConversationManager                                                     *)
(***************************************************************************)
\* the calls of process_message that can be in progress at once
Tasks == {1, 2}

\* message texts a caller sends
ChatTexts ==
    { <<"h", "o", "l", "a">>, <<"1">>, <<"U", "N", "O">>, <<" ", "3", " ">>,
      <<"t", "r", "e", "s">>, <<"4">>, <<"s", "e", "i", "s">>, <<"a", "d", "s">>,
      <<"n", "a", "d", "a">>, <<>> }

\* message texts two concurrent callers send
RaceTexts == { <<"h", "o", "l", "a">>, <<"1">>, <<"a", "d", "s">> }

\* a reply or a message content: its kind, a name it carries, a text it carries
Content(kind, arg, text) == [kind |-> kind, arg |-> arg, text |-> text]

NoReply == Content("", "", <<>>)

\* the welcome text of lines 73-90 (settings.welcome_message or the default)
Welcome == Content("welcome", "", <<>>)

\* _marketing_scope_prompt
MarketingScopePrompt(reminder) ==
    Content("scope_prompt", IF reminder THEN "reminder" ELSE "initial", <<>>)

\* the fixed text returned by the except clause of process_message
TechnicalError == Content("technical_error", "", <<>>)

\* what generate_marketing_performance_report(scope_choice) answers
ReportReply(choice, fetched) ==
    Content("report", choice, <<MarketingAnswer(ScopeChars(choice), fetched)>>)

\* what generate_response(message_text=...) answers: the AI's text for a
\* mapped command or for the message itself
AiReply(command, text) == Content("ai", command, text)

\* an entry of conversation["messages"]
Entry(role, content, message_id) ==
    [role |-> role, content |-> content, message_id |-> message_id]

\* histories get_conversation_history can return
DbHistories ==
    { <<>>,
      <<Entry("assistant", Welcome, 0)>>,
      <<Entry("user", Content("text", "", <<"h", "o", "l", "a">>), 0),
        Entry("assistant", Welcome, 0)>> }

\* _is_first_message taken as "the history is empty"
IsFirstMessageEmptyOnly(messages) == Len(messages) = 0

\* _is_first_message
IsFirstMessage(messages) ==
    IF Len(messages) = 0 THEN TRUE
    ELSE {k \in 1..Len(messages) : messages[k].role = "user"} = {}

\* numeric_map of _interpret_marketing_scope
ScopeOfNumber(cleaned) ==
    CASE cleaned \in {<<"1">>, <<"u", "n", "o">>} -> "campaigns"
      [] cleaned \in {<<"2">>, <<"d", "o", "s">>} -> "adsets"
      [] cleaned \in {<<"3">>, <<"t", "r", "e", "s">>} -> "ads"
      [] OTHER -> "None"

\* _interpret_marketing_scope
InterpretMarketingScope(message) ==
    IF message = <<>> THEN "None"
    ELSE LET cleaned == Strip(Lower(message))
         IN IF ScopeOfNumber(cleaned) # "None" THEN ScopeOfNumber(cleaned)
            ELSE NormalizeScope(message)

\* number_map of process_message (line 101); "" is the missing key
NumberMap(message_lower) ==
    CASE message_lower \in {<<"1">>, <<"u", "n", "o">>} -> "ventas"
      [] message_lower \in {<<"2">>, <<"d", "o", "s">>} -> "gastos"
      [] message_lower \in {<<"3">>, <<"t", "r", "e", "s">>} -> "marketing"
      [] message_lower \in {<<"4">>, <<"c", "u", "a", "t", "r", "o">>} -> "productos más vendidos"
      [] message_lower \in {<<"5">>, <<"c", "i", "n", "c", "o">>,
                            <<"6">>, <<"s", "e", "i", "s">>} -> "reporte"
      [] OTHER -> ""

\* the branch of the if/elif chain of lines 70-152 a message takes
BranchOf(is_first, awaiting, scope_choice, message_lower) ==
    CASE is_first -> "welcome"
      [] ~is_first /\ (awaiting \/ scope_choice # "None") ->
           IF scope_choice # "None" THEN "report" ELSE "reminder"
      [] ~is_first /\ ~(awaiting \/ scope_choice # "None") /\ NumberMap(message_lower) # "" ->
           IF NumberMap(message_lower) = "marketing" THEN "prompt" ELSE "ai_command"
      [] OTHER -> "ai"

\* metadata["awaiting_marketing_scope"] after the branch ran
FlagAfter(branch, awaiting) ==
    CASE branch = "report" -> FALSE
      [] branch = "prompt" -> TRUE
      [] OTHER -> awaiting

\* the branches that build the response without awaiting anything
Immediate == {"welcome", "reminder", "prompt"}

\* the response of such a branch
ImmediateReply(branch) ==
    CASE branch = "welcome" -> Welcome
      [] branch = "reminder" -> MarketingScopePrompt(TRUE)
      [] OTHER -> MarketingScopePrompt(FALSE)

\* no call of process_message is in progress; the fields are the arguments and
\* locals of process_message (awaiting is the flag as read at line 91), created
\* tells that the call's get_conversation ran lines 191-203, appended lists the
\* roles of the entries the call has appended
NoFrame ==
    [pc |-> "idle", text |-> <<>>, message_id |-> 0, conv |-> 0, is_first |-> FALSE,
     awaiting |-> FALSE, branch |-> "", scope_choice |-> "None", created |-> FALSE,
     appended |-> <<>>, response |-> NoReply, raised |-> FALSE]

\* a fresh ConversationManager: self.conversations is empty
NoChat ==
    [store |-> 0, heap |-> <<>>, frames |-> [t \in Tasks |-> NoFrame], started |-> 0]

\* the dict of lines 191-203: the loaded history (loaded is the len(history)
\* of line 206) and the flag
NewConversation(history) ==
    [messages |-> history, loaded |-> Len(history), awaiting |-> FALSE]

\* an exception that leaves process_message
Propagate(frame) == [frame EXCEPT !.pc = "returned", !.raised = TRUE]

\* the except clause of process_message (lines 166-179)
OnException(frame) == [frame EXCEPT !.pc = "returned", !.response = TechnicalError]

\* conversation["messages"].append(entry) on the dict object obj
AppendTo(heap, obj, entry) ==
    [heap EXCEPT ![obj].messages = Append(@, entry)]

\* lines 50-152 up to the first await, on the conversation object obj that
\* get_conversation returned: is_first, the user entry, the flag, the branch
\* and, when nothing is awaited, lines 154-164
Enter(c, t, obj) ==
    LET frame == c.frames[t]
        is_first == IsFirstMessage(c.heap[obj].messages)
        scope_choice == InterpretMarketingScope(frame.text)
        branch == BranchOf(is_first, c.heap[obj].awaiting, scope_choice,
                           Strip(Lower(frame.text)))
        user == Entry("user", Content("text", "", frame.text), frame.message_id)
        heap1 == [AppendTo(c.heap, obj, user) EXCEPT
                    ![obj].awaiting = FlagAfter(branch, @)]
        entered == [frame EXCEPT !.conv = obj, !.is_first = is_first,
                                 !.awaiting = c.heap[obj].awaiting,
                                 !.branch = branch, !.scope_choice = scope_choice,
                                 !.appended = <<"user">>]
    IN IF branch \in Immediate
         THEN [c EXCEPT
                 !.heap = AppendTo(heap1, obj, Entry("assistant", ImmediateReply(branch), 0)),
                 !.frames[t] = [entered EXCEPT !.pc = "returned",
                                               !.appended = <<"user", "assistant">>,
                                               !.response = ImmediateReply(branch)]]
         ELSE [c EXCEPT
                 !.heap = heap1,
                 !.frames[t] = [entered EXCEPT
                                  !.pc = IF branch = "report" THEN "await_report"
                                                              ELSE "await_ai"]]

\* lines 154-164: the assistant entry and the return
Respond(c, t, response) ==
    [c EXCEPT !.heap = AppendTo(c.heap, c.frames[t].conv, Entry("assistant", response, 0)),
              !.frames[t] = [@ EXCEPT !.pc = "returned",
                                      !.appended = Append(@, "assistant"),
                                      !.response = response]]

(***************************************************************************)
(* build_marketing_report as a state machine                               *)
(***************************************************************************)
NoCall ==
    [set |-> FALSE, other |-> FALSE, data |-> <<>>, scope |-> "", aggregates |-> <<>>,
     overall |-> UnboundOverall, sorted_entities |-> <<>>, result |-> NoResult]

\* no call of normalize_scope is in progress
NoNorm == [pc |-> "idle", scope |-> <<>>, cleaned |-> <<>>, at |-> 0, result |-> ""]

InitWith(m) ==
    /\ mode = m
    /\ norm = NoNorm
    /\ sales = NoSales
    /\ chat = NoChat
    /\ hook = NoHook
    /\ pc = "idle"
    /\ data = <<>>
    /\ scope = ""
    /\ i = 0
    /\ aggregates = <<>>
    /\ overall = UnboundOverall
    /\ loc = NoLocals
    /\ sorted_entities = <<>>
    /\ result = NoResult
    /\ prev = NoCall

Init == InitWith("single")
InitRepeat == InitWith("repeat")
InitRank == InitWith("rank")
InitPerm == InitWith("perm")
InitScope == InitWith("scope")
InitSales == InitWith("sales")
InitGroup == InitWith("group")

\* the caller invokes build_marketing_report(data, scope)
StartCall ==
    /\ pc = "idle"
    /\ \E rows \in RowLists(mode), sc \in ScopesOf(mode) :
          /\ data' = rows
          /\ scope' = sc
    /\ pc' = "entered"
    /\ UNCHANGED <<mode, i, aggregates, overall, loc, sorted_entities, result, prev>>
    /\ UNCHANGED outsideReport

\* config = SCOPE_CONFIG.get(scope); if not config: return the message
UnknownScope ==
    /\ pc = "entered"
    /\ scope \notin DOMAIN SCOPE_CONFIG
    /\ result' = UnknownScopeMessage
    /\ pc' = "done"
    /\ UNCHANGED <<mode, data, scope, i, aggregates, overall, loc, sorted_entities, prev>>
    /\ UNCHANGED outsideReport

\* entering _aggregate_marketing_data: fresh aggregates and overall
BeginAggregate ==
    /\ pc = "entered"
    /\ scope \in DOMAIN SCOPE_CONFIG
    /\ aggregates' = <<>>
    /\ overall' = NewOverall(data)
    /\ i' = 0
    /\ pc' = "loop"
    /\ UNCHANGED <<mode, data, scope, loc, sorted_entities, result, prev>>
    /\ UNCHANGED outsideReport

\* SkipRow with the continue placed after the overall totals are folded
SkipRowFoldingOverall ==
    /\ pc = "loop"
    /\ i < Len(data)
    /\ LET row == data[i + 1]
           name == GetFirstNonEmpty(row, SCOPE_CONFIG[scope].group_keys)
       IN /\ ~Truthy(name)
          /\ loc' = [loc EXCEPT !.name = name]
          /\ overall' =
                AddToOverall(overall, row, ExtractNumeric(row, SPEND_KEYS),
                             ExtractNumeric(row, REVENUE_KEYS),
                             ExtractNumeric(row, CONVERSION_KEYS),
                             ExtractNumeric(row, CLICKS_KEYS),
                             ExtractNumeric(row, CPC_KEYS))
    /\ i' = i + 1
    /\ UNCHANGED <<mode, pc, data, scope, aggregates, sorted_entities, result, prev>>
    /\ UNCHANGED outsideReport

\* one iteration of the loop on a row without a name: continue
SkipRow ==
    /\ pc = "loop"
    /\ i < Len(data)
    /\ LET name == GetFirstNonEmpty(data[i + 1], SCOPE_CONFIG[scope].group_keys)
       IN /\ ~Truthy(name)
          /\ loc' = [loc EXCEPT !.name = name]
    /\ i' = i + 1
    /\ UNCHANGED <<mode, pc, data, scope, aggregates, overall, sorted_entities, result, prev>>
    /\ UNCHANGED outsideReport

\* one iteration of the loop on a row with a name
FoldRow ==
    /\ pc = "loop"
    /\ i < Len(data)
    /\ LET row == data[i + 1]
           config == SCOPE_CONFIG[scope]
           name == GetFirstNonEmpty(row, config.group_keys)
           key == Strip(StrOf(name))
           present == SetDefault(aggregates, key)
           at == CHOOSE k \in IndexOfName(present, key) : TRUE
           entity_id == GetFirstNonEmpty(row, config.id_keys)
           spend == ExtractNumeric(row, SPEND_KEYS)
           revenue == ExtractNumeric(row, REVENUE_KEYS)
           conversions == ExtractNumeric(row, CONVERSION_KEYS)
           clicks == ExtractNumeric(row, CLICKS_KEYS)
           cpc_value == ExtractNumeric(row, CPC_KEYS)
       IN /\ Truthy(name)
          /\ aggregates' =
                [present EXCEPT ![at] =
                    AddToEntry(@, entity_id, spend, revenue, conversions, clicks, cpc_value)]
          /\ overall' =
                AddToOverall(overall, row, spend, revenue, conversions, clicks, cpc_value)
          /\ loc' = [name |-> name, key |-> PyStr(key), entity_id |-> entity_id,
                     spend |-> spend, revenue |-> revenue, conversions |-> conversions,
                     clicks |-> clicks, cpc_value |-> cpc_value]
    /\ i' = i + 1
    /\ UNCHANGED <<mode, pc, data, scope, sorted_entities, result, prev>>
    /\ UNCHANGED outsideReport

\* the loops after the rows are consumed; _aggregate_marketing_data returns
PostPass ==
    /\ pc = "loop"
    /\ i = Len(data)
    /\ aggregates' = [k \in 1..Len(aggregates) |-> PostEntry(aggregates[k])]
    /\ overall' = PostOverall(overall)
    /\ pc' = "aggregated"
    /\ UNCHANGED <<mode, data, scope, i, loc, sorted_entities, result, prev>>
    /\ UNCHANGED outsideReport

\* NoData without the early return: a report with no entity in it
NoDataHalfBuilt ==
    /\ pc = "aggregated"
    /\ aggregates = <<>>
    /\ result' = [kind |-> "report", label |-> SCOPE_CONFIG[scope].label,
                  sections |-> <<BuildHeader(SCOPE_CONFIG[scope], overall),
                                 BuildSummaryLines(overall), ClosingPrompt>>]
    /\ pc' = "done"
    /\ UNCHANGED <<mode, data, scope, i, aggregates, overall, loc, sorted_entities, prev>>
    /\ UNCHANGED outsideReport

\* if not aggregates: return the no-data message
NoData ==
    /\ pc = "aggregated"
    /\ aggregates = <<>>
    /\ result' = NoDataMessage(SCOPE_CONFIG[scope])
    /\ pc' = "done"
    /\ UNCHANGED <<mode, data, scope, i, aggregates, overall, loc, sorted_entities, prev>>
    /\ UNCHANGED outsideReport

\* sorted(aggregates.values(), key=..., reverse=True) returns
SortEntities ==
    /\ pc = "aggregated"
    /\ aggregates # <<>>
    /\ ~SortRaisesTypeError(aggregates)
    /\ sorted_entities' = SortedDesc(aggregates)
    /\ pc' = "sorted"
    /\ UNCHANGED <<mode, data, scope, i, aggregates, overall, loc, result, prev>>
    /\ UNCHANGED outsideReport

\* sorted(...) raises TypeError, which build_marketing_report propagates
SortFails ==
    /\ pc = "aggregated"
    /\ aggregates # <<>>
    /\ SortRaisesTypeError(aggregates)
    /\ result' = RaisedTypeError
    /\ pc' = "done"
    /\ UNCHANGED <<mode, data, scope, i, aggregates, overall, loc, sorted_entities, prev>>
    /\ UNCHANGED outsideReport

\* the sections are built and joined; the report is returned
Render ==
    /\ pc = "sorted"
    /\ result' = Report(SCOPE_CONFIG[scope], overall, sorted_entities)
    /\ pc' = "done"
    /\ UNCHANGED <<mode, data, scope, i, aggregates, overall, loc, sorted_entities, prev>>
    /\ UNCHANGED outsideReport

\* the call is over: its frame is dropped; the first call's outcome is kept
\* for comparison when successive calls are compared, with a note of whether
\* a call with other arguments has completed since
Return ==
    /\ pc = "done"
    /\ pc' = "idle"
    /\ prev' = IF mode = "repeat" /\ ~prev.set
               THEN [set |-> TRUE, other |-> FALSE, data |-> data, scope |-> scope,
                     aggregates |-> aggregates, overall |-> overall,
                     sorted_entities |-> sorted_entities, result |-> result]
               ELSE IF mode = "repeat" /\ (data # prev.data \/ scope # prev.scope)
               THEN [prev EXCEPT !.other = TRUE]
               ELSE prev
    /\ data' = <<>>
    /\ scope' = ""
    /\ i' = 0
    /\ aggregates' = <<>>
    /\ overall' = UnboundOverall
    /\ loc' = NoLocals
    /\ sorted_entities' = <<>>
    /\ result' = NoResult
    /\ UNCHANGED mode
    /\ UNCHANGED outsideReport

(***************************************************************************)
(* normalize_scope as a state machine                                      *)
(***************************************************************************)
\* normalize_scope(scope) is called with some text
NormCall ==
    /\ norm.pc = "idle"
    /\ \E text \in ScopeTexts :
          norm' = [NoNorm EXCEPT !.pc = "entered", !.scope = text]
    /\ UNCHANGED outsideScope

\* if not scope: return None
NormEmptyScope ==
    /\ norm.pc = "entered"
    /\ norm.scope = <<>>
    /\ norm' = [norm EXCEPT !.pc = "done", !.result = "None"]
    /\ UNCHANGED outsideScope

\* cleaned = _clean_text(scope)
NormClean ==
    /\ norm.pc = "entered"
    /\ norm.scope # <<>>
    /\ norm' = [norm EXCEPT !.pc = "cleaned", !.cleaned = CleanText(norm.scope)]
    /\ UNCHANGED outsideScope

\* if not cleaned: return None
NormEmptyCleaned ==
    /\ norm.pc = "cleaned"
    /\ norm.cleaned = <<>>
    /\ norm' = [norm EXCEPT !.pc = "done", !.result = "None"]
    /\ UNCHANGED outsideScope

\* if cleaned in SCOPE_ALIASES: return SCOPE_ALIASES[cleaned]
NormExact ==
    /\ norm.pc = "cleaned"
    /\ norm.cleaned # <<>>
    /\ ExactAliases(norm.cleaned) # {}
    /\ norm' = [norm EXCEPT
                  !.pc = "done",
                  !.result = SCOPE_ALIASES[CHOOSE k \in ExactAliases(norm.cleaned) : TRUE].canonical]
    /\ UNCHANGED outsideScope

\* no key of the dict is the text: the for loop over SCOPE_ALIASES.items() starts
NormBeginScan ==
    /\ norm.pc = "cleaned"
    /\ norm.cleaned # <<>>
    /\ ExactAliases(norm.cleaned) = {}
    /\ norm' = [norm EXCEPT !.pc = "scan", !.at = 1]
    /\ UNCHANGED outsideScope

\* one iteration: the alias is not in the text
NormScanMiss ==
    /\ norm.pc = "scan"
    /\ norm.at <= Len(SCOPE_ALIASES)
    /\ ~IsSubstring(SCOPE_ALIASES[norm.at].alias, norm.cleaned)
    /\ norm' = [norm EXCEPT !.at = @ + 1]
    /\ UNCHANGED outsideScope

\* one iteration: if alias in cleaned: return canonical
NormScanHit ==
    /\ norm.pc = "scan"
    /\ norm.at <= Len(SCOPE_ALIASES)
    /\ IsSubstring(SCOPE_ALIASES[norm.at].alias, norm.cleaned)
    /\ norm' = [norm EXCEPT !.pc = "done", !.result = SCOPE_ALIASES[norm.at].canonical]
    /\ UNCHANGED outsideScope

\* the loop is exhausted: return None
NormNoAlias ==
    /\ norm.pc = "scan"
    /\ norm.at > Len(SCOPE_ALIASES)
    /\ norm' = [norm EXCEPT !.pc = "done", !.result = "None"]
    /\ UNCHANGED outsideScope

\* the call is over: its frame is dropped
NormReturn ==
    /\ norm.pc = "done"
    /\ norm' = NoNorm
    /\ UNCHANGED outsideScope

NextScope ==
    \/ NormCall
    \/ NormEmptyScope
    \/ NormClean
    \/ NormEmptyCleaned
    \/ NormExact
    \/ NormBeginScan
    \/ NormScanMiss
    \/ NormScanHit
    \/ NormNoAlias
    \/ NormReturn

(***************************************************************************)
(* _build_sales_insights as a state machine                                *)
(***************************************************************************)
\* _build_sales_insights(records) is called
SalesCall ==
    /\ sales.pc = "idle"
    /\ \E rows \in SalesLists :
          sales' = [NoSales EXCEPT !.pc = "loop", !.records = rows]
    /\ UNCHANGED outsideSales

\* one iteration for a row whose month_date is None
SalesRowWithoutMonth ==
    /\ sales.pc = "loop"
    /\ sales.i < Len(sales.records)
    /\ \E v \in {SalesRowValues(sales.records[sales.i + 1])} : IsNone(v.month_date)
    /\ sales' = [sales EXCEPT !.i = @ + 1]
    /\ UNCHANGED outsideSales

\* one iteration for a row with a month: lines 289-296
SalesRowWithMonth ==
    /\ sales.pc = "loop"
    /\ sales.i < Len(sales.records)
    /\ \E v \in {SalesRowValues(sales.records[sales.i + 1])} :
          /\ ~IsNone(v.month_date)
          /\ IsNone(sales.earliest_month) \/ ~MonthLessRaises(v.month_date, sales.earliest_month)
          /\ \E better \in {NumLess(sales.best_revenue, v.revenue)} :
                sales' = [sales EXCEPT
                            !.i = @ + 1,
                            !.earliest_month =
                                IF IsNone(@) \/ MonthLess(v.month_date, @)
                                THEN v.month_date ELSE @,
                            !.best_revenue = IF better THEN v.revenue ELSE @,
                            !.best_month = IF better THEN v.month_date ELSE @,
                            !.best_margin = IF better THEN v.margin_pct ELSE @]
    /\ UNCHANGED outsideSales

\* month_date < earliest_month between a date and a datetime: TypeError
SalesCompareRaises ==
    /\ sales.pc = "loop"
    /\ sales.i < Len(sales.records)
    /\ \E v \in {SalesRowValues(sales.records[sales.i + 1])} :
          /\ ~IsNone(v.month_date)
          /\ ~IsNone(sales.earliest_month)
          /\ MonthLessRaises(v.month_date, sales.earliest_month)
    /\ sales' = [sales EXCEPT !.pc = "done", !.result = InsightRaised]
    /\ UNCHANGED outsideSales

\* the loop is over: lines 298-319
SalesRender ==
    /\ sales.pc = "loop"
    /\ sales.i = Len(sales.records)
    /\ sales' = [sales EXCEPT
                   !.pc = "done",
                   !.result = IF InsightLines(sales) = <<>> THEN InsightNone
                              ELSE InsightText(InsightLines(sales))]
    /\ UNCHANGED outsideSales

\* the call is over: its frame is dropped
SalesReturn ==
    /\ sales.pc = "done"
    /\ sales' = NoSales
    /\ UNCHANGED outsideSales

NextSales ==
    \/ SalesCall
    \/ SalesRowWithoutMonth
    \/ SalesRowWithMonth
    \/ SalesCompareRaises
    \/ SalesRender
    \/ SalesReturn

Next ==
    \/ StartCall
    \/ UnknownScope
    \/ BeginAggregate
    \/ SkipRow
    \/ FoldRow
    \/ PostPass
    \/ NoData
    \/ SortEntities
    \/ SortFails
    \/ Render
    \/ Return

Spec == Init /\ [][Next]_vars
SpecRepeat == InitRepeat /\ [][Next]_vars
SpecRank == InitRank /\ [][Next]_vars
SpecPerm == InitPerm /\ [][Next]_vars
SpecScope == InitScope /\ [][NextScope]_vars
SpecSales == InitSales /\ [][NextSales]_vars
SpecGroup == InitGroup /\ [][Next]_vars

(***************************************************************************)
(* process_message and get_conversation, one action per stretch of code    *)
(* between two awaits (a coroutine is only left at an await)               *)
(***************************************************************************)
\* the texts the callers of a mode send
TextsOf(m) == IF m = "race" THEN RaceTexts ELSE ChatTexts

\* the number of calls the callers of a mode make
MaxCallsOf(m) == IF m = "race" THEN MaxRaceCalls ELSE MaxCalls

InitChat == InitWith("chat")
InitRace == InitWith("race")

\* the frame of a call that has just been made
Called(c, t, text) ==
    [c EXCEPT !.started = @ + 1,
              !.frames[t] = [NoFrame EXCEPT !.pc = "called", !.text = text,
                                            !.message_id = c.started + 1]]

\* a caller may start a call: in the sequential mode one call at a time
MayCall(t) ==
    /\ mode \in {"chat", "race"}
    /\ chat.frames[t].pc = "idle"
    /\ chat.started < MaxCallsOf(mode)
    /\ mode = "chat" => t = 1

\* process_message is called and get_conversation finds the number in
\* self.conversations (line 186 false): runs to the first await or the return
ChatCallKnown(t) ==
    /\ MayCall(t)
    /\ chat.store # 0
    /\ \E text \in TextsOf(mode) :
         chat' = Enter(Called(chat, t, text), t, chat.store)
    /\ UNCHANGED outsideChat

\* process_message is called and the number is not in self.conversations:
\* get_conversation awaits get_or_create_lead (line 188)
ChatCallUnknown(t) ==
    /\ MayCall(t)
    /\ chat.store = 0
    /\ \E text \in TextsOf(mode) :
         chat' = [Called(chat, t, text) EXCEPT !.frames[t].pc = "await_lead"]
    /\ UNCHANGED outsideChat

\* get_or_create_lead returns; get_conversation awaits get_conversation_history
LeadReturns(t) ==
    /\ chat.frames[t].pc = "await_lead"
    /\ chat' = [chat EXCEPT !.frames[t].pc = "await_history"]
    /\ UNCHANGED outsideChat

\* get_or_create_lead raises
LeadRaises(t) ==
    /\ chat.frames[t].pc = "await_lead"
    /\ chat' = [chat EXCEPT !.frames[t] = OnException(@)]
    /\ UNCHANGED outsideChat

\* get_conversation_history returns: lines 191-203 store a new dict under the
\* number, lines 208-213 return it, process_message runs to its first await
HistoryReturns(t) ==
    /\ chat.frames[t].pc = "await_history"
    /\ \E history \in DbHistories :
         LET obj == Len(chat.heap) + 1
             stored == [chat EXCEPT
                          !.heap = Append(@, NewConversation(history)),
                          !.store = obj,
                          !.frames[t].created = TRUE]
         IN chat' = Enter(stored, t, obj)
    /\ UNCHANGED outsideChat

\* get_conversation_history raises
HistoryRaises(t) ==
    /\ chat.frames[t].pc = "await_history"
    /\ chat' = [chat EXCEPT !.frames[t] = OnException(@)]
    /\ UNCHANGED outsideChat

\* generate_marketing_performance_report returns (line 94)
ReportReturns(t) ==
    /\ chat.frames[t].pc = "await_report"
    /\ \E fetched \in FetchOutcomes :
         chat' = Respond(chat, t, ReportReply(chat.frames[t].scope_choice, fetched))
    /\ UNCHANGED outsideChat

\* generate_response returns (lines 116, 123 and 147)
AiReturns(t) ==
    /\ chat.frames[t].pc = "await_ai"
    /\ chat' = Respond(chat, t,
                 IF chat.frames[t].branch = "ai_command"
                   THEN AiReply(NumberMap(Strip(Lower(chat.frames[t].text))), <<>>)
                   ELSE AiReply("", chat.frames[t].text))
    /\ UNCHANGED outsideChat

\* the caller takes the reply
ChatReturn(t) ==
    /\ chat.frames[t].pc = "returned"
    /\ chat' = [chat EXCEPT !.frames[t] = NoFrame]
    /\ UNCHANGED outsideChat

NextChat ==
    \/ \E t \in Tasks : ChatCallKnown(t)
    \/ \E t \in Tasks : ChatCallUnknown(t)
    \/ \E t \in Tasks : LeadReturns(t)
    \/ \E t \in Tasks : LeadRaises(t)
    \/ \E t \in Tasks : HistoryReturns(t)
    \/ \E t \in Tasks : HistoryRaises(t)
    \/ \E t \in Tasks : ReportReturns(t)
    \/ \E t \in Tasks : AiReturns(t)
    \/ \E t \in Tasks : ChatReturn(t)

SpecChat == InitChat /\ [][NextChat]_vars
SpecRace == InitRace /\ [][NextChat]_vars

(***************************************************************************)
(* webhook_verify, step by step                                            *)
(***************************************************************************)
InitHook == InitWith("hook")

\* lines 58-60: the three query parameters are read
HookRequest ==
    /\ mode = "hook"
    /\ hook.pc = "idle"
    /\ \E m \in HubModes, t \in HubTokens, c \in HubChallenges :
         hook' = [NoHook EXCEPT !.pc = "verify", !.mode = m, !.token = t, !.challenge = c]
    /\ UNCHANGED outsideHook

\* verify_webhook returns a true value: lines 66-67
HookVerified ==
    /\ hook.pc = "verify"
    /\ hook' = ChallengeResponse([hook EXCEPT !.verified = "true"])
    /\ UNCHANGED outsideHook

\* verify_webhook returns a false value: line 70 raises HTTPException(403)
\* inside the try block
HookRejected ==
    /\ hook.pc = "verify"
    /\ hook' = [hook EXCEPT !.pc = "raised", !.verified = "false",
                            !.error = "Verification failed"]
    /\ UNCHANGED outsideHook

\* verify_webhook itself raises
HookVerifyRaises ==
    /\ hook.pc = "verify"
    /\ hook' = [hook EXCEPT !.pc = "raised", !.verified = "raised",
                            !.error = "verify_webhook"]
    /\ UNCHANGED outsideHook

\* lines 72-74: except Exception takes whatever was raised in the try block
HookCaught ==
    /\ hook.pc = "raised"
    /\ hook' = VerifyExcept(hook)
    /\ UNCHANGED outsideHook

\* the response is sent
HookReturn ==
    /\ hook.pc = "done"
    /\ hook' = NoHook
    /\ UNCHANGED outsideHook

NextHook ==
    \/ HookRequest
    \/ HookVerified
    \/ HookRejected
    \/ HookVerifyRaises
    \/ HookCaught
    \/ HookReturn

SpecHook == InitHook /\ [][NextHook]_vars

(***************************************************************************)
(* Properties                                                              *)
(***************************************************************************)
\* the call is inside or past _aggregate_marketing_data
InAggregation ==
    \/ pc \in {"loop", "aggregated", "sorted"}
    \/ pc = "done" /\ scope \in DOMAIN SCOPE_CONFIG

\* _aggregate_marketing_data has returned
AfterPostPass ==
    \/ pc \in {"aggregated", "sorted"}
    \/ pc = "done" /\ scope \in DOMAIN SCOPE_CONFIG

\* some grouping-name candidate of the scope holds a usable value in the row
Resolves(row, sc) ==
    \E k \in 1..Len(SCOPE_CONFIG[sc].group_keys) :
        Truthy(RowGet(row, SCOPE_CONFIG[sc].group_keys[k]))

\* the aggregation key of a row that resolves
RowKey(row, sc) == Strip(StrOf(GetFirstNonEmpty(row, SCOPE_CONFIG[sc].group_keys)))

ResolvingRows(rows, sc) == SelectSeq(rows, LAMBDA r : Resolves(r, sc))
RowsOf(rows, sc, key) == SelectSeq(ResolvingRows(rows, sc), LAMBDA r : RowKey(r, sc) = key)

RECURSIVE SumCoerced(_, _)
SumCoerced(rows, keys) ==
    IF rows = <<>> THEN Zero
    ELSE NumAdd(ExtractNumeric(Head(rows), keys), SumCoerced(Tail(rows), keys))

RECURSIVE SamplesOf(_)
SamplesOf(rows) ==
    IF rows = <<>> THEN <<>>
    ELSE (IF ExtractNumeric(Head(rows), CPC_KEYS) = Zero THEN <<>>
          ELSE <<ExtractNumeric(Head(rows), CPC_KEYS)>>) \o SamplesOf(Tail(rows))

DatesOf(rows, keys) ==
    {ExtractDate(rows[k], keys).n : k \in {j \in 1..Len(rows) : ~IsNone(ExtractDate(rows[j], keys))}}

EarliestOf(rows, keys) ==
    IF DatesOf(rows, keys) = {} THEN PyNone
    ELSE PyDate(CHOOSE x \in DatesOf(rows, keys) : \A y \in DatesOf(rows, keys) : x <= y)

LatestOf(rows, keys) ==
    IF DatesOf(rows, keys) = {} THEN PyNone
    ELSE PyDate(CHOOSE x \in DatesOf(rows, keys) : \A y \in DatesOf(rows, keys) : x >= y)

Consumed == SubSeq(data, 1, i)

\* C1 (as stated): once the rows are aggregated, overall.spend, revenue,
\* conversions and clicks equal the sums of the coerced metric over ALL
\* input rows, whether or not the row resolved a grouping name.
C1_OverallSumsAllRows ==
    AfterPostPass =>
        /\ overall.spend = SumCoerced(data, SPEND_KEYS)
        /\ overall.revenue = SumCoerced(data, REVENUE_KEYS)
        /\ overall.conversions = SumCoerced(data, CONVERSION_KEYS)
        /\ overall.clicks = SumCoerced(data, CLICKS_KEYS)

\* C1 (amended): a row that resolves no grouping name is left out of every
\* per-entity aggregate and of the overall sums, CPC samples and date range
\* alike (it counts in total_records only); at every point of the loop the
\* overall totals are the sums over the consumed rows that resolve, and each
\* entity's sums are the sums over the consumed rows that resolve to its key.
C1_OverallSumsResolvingRows ==
    InAggregation =>
        LET rs == ResolvingRows(Consumed, scope)
        IN /\ overall.total_records = Len(data)
           /\ overall.spend = SumCoerced(rs, SPEND_KEYS)
           /\ overall.revenue = SumCoerced(rs, REVENUE_KEYS)
           /\ overall.conversions = SumCoerced(rs, CONVERSION_KEYS)
           /\ overall.clicks = SumCoerced(rs, CLICKS_KEYS)
           /\ overall.cpc_samples = SamplesOf(rs)
           /\ overall.start_date = EarliestOf(rs, DATE_START_KEYS)
           /\ overall.end_date = LatestOf(rs, DATE_END_KEYS)
           /\ \A k \in 1..Len(aggregates) :
                LET mine == RowsOf(Consumed, scope, aggregates[k].name)
                IN /\ mine # <<>>
                   /\ aggregates[k].spend = SumCoerced(mine, SPEND_KEYS)
                   /\ aggregates[k].revenue = SumCoerced(mine, REVENUE_KEYS)
                   /\ aggregates[k].conversions = SumCoerced(mine, CONVERSION_KEYS)
                   /\ aggregates[k].clicks = SumCoerced(mine, CLICKS_KEYS)

\* C1 witness: an aggregation is finished in which one row built an entity
\* and another row, carrying spend, resolved no name and is missing from
\* overall.spend
C1_Witness ==
    /\ pc = "aggregated"
    /\ aggregates # <<>>
    /\ \E k \in 1..Len(data) :
          /\ ~Resolves(data[k], scope)
          /\ ExtractNumeric(data[k], SPEND_KEYS) # Zero
    /\ overall.spend # SumCoerced(data, SPEND_KEYS)

\* C2 (as stated): every call of build_report ends by returning a string:
\* a full report, the no-data message or the unrecognized-scope message;
\* it never raises.
C2_AlwaysReturnsAString ==
    pc = "done" => result.kind \in {"report", "no_data", "unknown_scope"}

\* the ranking tuple of the claim: an undefined return ratio counts as zero
ClaimedKey(e) == <<e.revenue, e.conversions, IF IsNone(e.roi) THEN Zero ELSE e.roi>>

\* a ranks strictly before b by the claimed tuple
ClaimedBefore(a, b) ==
    LET ka == ClaimedKey(a)
        kb == ClaimedKey(b)
    IN \/ NumLess(kb[1], ka[1])
       \/ ka[1] = kb[1] /\ NumLess(kb[2], ka[2])
       \/ ka[1] = kb[1] /\ ka[2] = kb[2] /\ NumLess(kb[3], ka[3])

\* C3 (as stated): when build_report has aggregated at least one entity, of
\* any two entities the one with the greater tuple (revenue, conversions,
\* return ratio or zero) comes first in the ranked list.
C3_RankedByClaimedTuple ==
    (pc = "done" /\ scope \in DOMAIN SCOPE_CONFIG /\ aggregates # <<>>) =>
        /\ \A a, b \in 1..Len(aggregates) :
              ClaimedBefore(aggregates[a], aggregates[b]) =>
                 \E j, k \in 1..Len(sorted_entities) :
                    /\ j < k
                    /\ sorted_entities[j] = aggregates[a]
                    /\ sorted_entities[k] = aggregates[b]

RECURSIVE SumField(_, _)
SumField(entries, f) ==
    IF entries = <<>> THEN Zero ELSE NumAdd(Head(entries)[f], SumField(Tail(entries), f))

AllRowsResolve == \A k \in 1..Len(data) : Resolves(data[k], scope)

ReportSectionKinds == {"header", "summary", "standout", "top_list", "coverage", "closing"}

HasNoReportSection ==
    \A k \in 1..Len(result.sections) : result.sections[k].sec \notin ReportSectionKinds

NoRowResolves == \A k \in 1..Len(data) : ~Resolves(data[k], scope)

\* C5: build_report returns the unrecognized-scope message when the scope is
\* not a configured scope, and the no-data message naming the scope's label
\* when the row list is empty or no row resolves a name ("anuncios" for the
\* scope ads); neither message holds any section of a report.
C5_MessagesInsteadOfPartialReport ==
    pc = "done" =>
        /\ scope \notin DOMAIN SCOPE_CONFIG =>
              result.kind = "unknown_scope" /\ HasNoReportSection
        /\ (scope \in DOMAIN SCOPE_CONFIG /\ NoRowResolves) =>
              /\ result.kind = "no_data"
              /\ result.label = SCOPE_CONFIG[scope].label
              /\ scope = "ads" => result.label = "anuncios"
              /\ HasNoReportSection

\* C5 witness: a call for the ads level on rows none of which names an ad
\* has returned the no-data message for "anuncios"
C5_Witness ==
    /\ pc = "done"
    /\ scope = "ads"
    /\ data # <<>>
    /\ NoRowResolves
    /\ result = NoDataMessage(SCOPE_CONFIG["ads"])

\* the call in progress has the arguments of the first completed call
SameArgumentsAsFirstCall == prev.set /\ prev.data = data /\ prev.scope = scope

\* C6: a call with the same row list and scope as an earlier call, whatever
\* calls were made in between, ends with the same totals, the same entity
\* aggregates, the same ranking and the same returned text; and no step of a
\* call changes the rows or the scope it was given.
C6_RepeatedCallSameOutcome ==
    /\ [](pc = "done" /\ SameArgumentsAsFirstCall =>
             /\ overall = prev.overall
             /\ aggregates = prev.aggregates
             /\ sorted_entities = prev.sorted_entities
             /\ result = prev.result)
    /\ [][(pc # "idle" /\ pc' # "idle") => (data' = data /\ scope' = scope)]_vars

\* C6 witness: a report with totals was produced a second time for the same
\* rows and scope after a call with other arguments had completed
C6_Witness ==
    /\ pc = "done"
    /\ SameArgumentsAsFirstCall
    /\ prev.other
    /\ result.kind = "report"
    /\ Len(data) = 2
    /\ NumPositive(overall.revenue)
    /\ NumPositive(overall.spend)

\* the cell of the first key that is present in the row and not null
RECURSIVE FirstNonNullCell(_, _)
FirstNonNullCell(row, keys) ==
    IF keys = <<>> THEN PyNone
    ELSE IF ~IsNone(RowGet(row, Head(keys))) THEN RowGet(row, Head(keys))
    ELSE FirstNonNullCell(row, Tail(keys))

\* the number the first present, non-null alias coerces to (0.0 by default)
ClaimedMetric(row, keys) ==
    IF IsNone(ToFloat(FirstNonNullCell(row, keys))) THEN Zero
    ELSE ToFloat(FirstNonNullCell(row, keys))

\* the number of the first alias whose value coerces to a number
RECURSIVE FirstCoercible(_, _)
FirstCoercible(row, keys) ==
    IF keys = <<>> THEN Zero
    ELSE IF ~IsNone(ToFloat(RowGet(row, Head(keys)))) THEN ToFloat(RowGet(row, Head(keys)))
    ELSE FirstCoercible(row, Tail(keys))

\* the loop body has just run to its end on row data[i]
RowFolded == InAggregation /\ i > 0 /\ Resolves(data[i], scope)

\* C7 (as stated): what a row contributes for each metric is decided by the
\* first alias, in configured order, that is present and not null in the
\* row, and by nothing else.
C7_FirstPresentAliasDecides ==
    RowFolded =>
        /\ loc.spend = ClaimedMetric(data[i], SPEND_KEYS)
        /\ loc.revenue = ClaimedMetric(data[i], REVENUE_KEYS)
        /\ loc.conversions = ClaimedMetric(data[i], CONVERSION_KEYS)
        /\ loc.clicks = ClaimedMetric(data[i], CLICKS_KEYS)
        /\ loc.cpc_value = ClaimedMetric(data[i], CPC_KEYS)

\* C7 (amended): what a row contributes for each metric is decided by the
\* first alias, in configured order, whose value is present, not null and
\* coercible to a number; aliases after it have no influence, aliases before
\* it (booleans, unparsable or empty strings) are passed over, and the row
\* contributes 0.0 when no alias is coercible.
C7_FirstCoercibleAliasDecides ==
    RowFolded =>
        /\ loc.spend = FirstCoercible(data[i], SPEND_KEYS)
        /\ loc.revenue = FirstCoercible(data[i], REVENUE_KEYS)
        /\ loc.conversions = FirstCoercible(data[i], CONVERSION_KEYS)
        /\ loc.clicks = FirstCoercible(data[i], CLICKS_KEYS)
        /\ loc.cpc_value = FirstCoercible(data[i], CPC_KEYS)

\* C7 witness: a row with revenue=100 and ingresos=200 was folded and
\* contributed revenue 100
C7_Witness ==
    /\ RowFolded
    /\ RowGet(data[i], "revenue") = N(100)
    /\ RowGet(data[i], "ingresos") = N(200)
    /\ loc.revenue = N(100)

\* str() of the first candidate that is present and not null, else None
ClaimedName(row, keys) ==
    IF IsNone(FirstNonNullCell(row, keys)) THEN PyNone
    ELSE PyStr(StrOf(FirstNonNullCell(row, keys)))

\* the cell of the first key whose value is truthy
RECURSIVE FirstTruthyCell(_, _)
FirstTruthyCell(row, keys) ==
    IF keys = <<>> THEN PyNone
    ELSE IF Truthy(RowGet(row, Head(keys))) THEN RowGet(row, Head(keys))
    ELSE FirstTruthyCell(row, Tail(keys))

TruthyName(row, keys) ==
    IF IsNone(FirstTruthyCell(row, keys)) THEN PyNone
    ELSE PyStr(StrOf(FirstTruthyCell(row, keys)))

\* the loop has just looked at row data[i]
RowSeen == InAggregation /\ i > 0

\* C8 (as stated): the grouping name and the identifier resolved for a row
\* are the value of the earliest candidate key that is present and not
\* null, whatever that value is, and None only when there is no such key.
C8_FirstNonNullCandidate ==
    RowSeen =>
        /\ loc.name = ClaimedName(data[i], SCOPE_CONFIG[scope].group_keys)
        /\ Resolves(data[i], scope) =>
              loc.entity_id = ClaimedName(data[i], SCOPE_CONFIG[scope].id_keys)

\* C8 (amended): the grouping name and the identifier resolved for a row are
\* the value, as a string, of the earliest candidate key whose value is
\* truthy (present, not null, and not an empty string, zero or False), and
\* None only when no candidate key holds such a value.
C8_FirstTruthyCandidate ==
    RowSeen =>
        /\ loc.name = TruthyName(data[i], SCOPE_CONFIG[scope].group_keys)
        /\ Resolves(data[i], scope) =>
              loc.entity_id = TruthyName(data[i], SCOPE_CONFIG[scope].id_keys)

\* C8 witness: a row whose first name candidate is an empty string and whose
\* third is "B" was grouped under "B", with the identifier of its second
\* identifier candidate
C8_Witness ==
    /\ RowSeen
    /\ scope = "campaigns"
    /\ RowGet(data[i], "campaign_name") = S(<<>>)
    /\ RowGet(data[i], "campaign_id") = S(<<>>)
    /\ loc.name = S(<<"B">>)
    /\ loc.entity_id = S(<<"x", "1">>)

\* r is the number num/den
RatioIs(r, num, den) ==
    /\ r.t = "num"
    /\ r.n * den.n * num.d = num.n * den.d * r.d

\* the entity aggregates together with the overall totals
Totals ==
    {[spend |-> aggregates[k].spend, revenue |-> aggregates[k].revenue,
      clicks |-> aggregates[k].clicks, cpc_samples |-> aggregates[k].cpc_samples,
      roi |-> aggregates[k].roi, cpc |-> aggregates[k].cpc] : k \in 1..Len(aggregates)}
    \cup {[spend |-> overall.spend, revenue |-> overall.revenue,
           clicks |-> overall.clicks, cpc_samples |-> overall.cpc_samples,
           roi |-> overall.roi, cpc |-> overall.cpc]}

\* C9: after the post-pass the return ratio of every entity and of the
\* overall totals is revenue/spend when spend is not zero and is undefined
\* (None: not zero, not an error) when spend is zero, whatever the revenue.
C9_ReturnRatioSafeDivision ==
    AfterPostPass =>
        \A e \in Totals :
            IF e.spend.n # 0 THEN RatioIs(e.roi, e.revenue, e.spend)
            ELSE e.roi = PyNone

\* C9 witness: an entity with zero spend and positive revenue has an
\* undefined ratio next to an entity whose ratio is defined
C9_Witness ==
    /\ pc = "aggregated"
    /\ \E e \in Totals : e.spend.n = 0 /\ NumPositive(e.revenue) /\ e.roi = PyNone
    /\ \E e \in Totals : e.spend.n # 0 /\ e.roi.t = "num" /\ e.roi.n # 0

IsUnusable(v) ==
    \/ v.t \in {"none", "bool", "nonfinite"}
    \/ v.t = "str" /\ IsNone(ParseFloat(Strip(RemoveChars(v.s, {"$", ",", "%"}))))

\* what the row adds for a metric when its unusable cells count for nothing:
\* the number of the first alias that holds a usable cell, else 0.0
RECURSIVE UsableValue(_, _)
UsableValue(row, keys) ==
    IF keys = <<>> THEN Zero
    ELSE IF HasKey(row, Head(keys)) /\ ~IsUnusable(row[Head(keys)])
         THEN ToFloat(row[Head(keys)])
         ELSE UsableValue(row, Tail(keys))

\* every alias of the metric that the row holds is unusable, and there is one
OnlyUnusable(row, keys) ==
    /\ \E k \in 1..Len(keys) : HasKey(row, keys[k])
    /\ \A k \in 1..Len(keys) : HasKey(row, keys[k]) => IsUnusable(row[keys[k]])

\* the running sum of a field for the entity of that key (0.0 before its
\* first row)
EntitySum(aggs, key, f) ==
    IF IndexOfName(aggs, key) = {} THEN Zero
    ELSE aggs[CHOOSE k \in IndexOfName(aggs, key) : TRUE][f]

\* the loop body is about to run on a row that resolves a name
AboutToFold == pc = "loop" /\ i < Len(data) /\ Resolves(data[i + 1], scope)

\* C11: a metric cell that is null, an unparsable or empty string, a
\* non-finite float or a boolean counts as 0.0.  The row that holds it is
\* still processed (the loop moves on to the next row, the call is not
\* aborted), a metric whose cells are all unusable contributes exactly zero,
\* and the entity sums and the overall sums grow by what the usable cells
\* give and by nothing else.
C11_UnusableCellsAddZero ==
    /\ [](RowFolded =>
            /\ loc.spend = UsableValue(data[i], SPEND_KEYS)
            /\ loc.revenue = UsableValue(data[i], REVENUE_KEYS)
            /\ loc.conversions = UsableValue(data[i], CONVERSION_KEYS)
            /\ loc.clicks = UsableValue(data[i], CLICKS_KEYS)
            /\ loc.cpc_value = UsableValue(data[i], CPC_KEYS)
            /\ OnlyUnusable(data[i], SPEND_KEYS) => loc.spend = Zero
            /\ OnlyUnusable(data[i], REVENUE_KEYS) => loc.revenue = Zero
            /\ OnlyUnusable(data[i], CONVERSION_KEYS) => loc.conversions = Zero
            /\ OnlyUnusable(data[i], CLICKS_KEYS) => loc.clicks = Zero
            /\ OnlyUnusable(data[i], CPC_KEYS) => loc.cpc_value = Zero)
    /\ [][AboutToFold =>
            LET row == data[i + 1]
                key == RowKey(row, scope)
            IN /\ pc' = "loop"
               /\ i' = i + 1
               /\ overall'.spend = NumAdd(overall.spend, UsableValue(row, SPEND_KEYS))
               /\ overall'.revenue = NumAdd(overall.revenue, UsableValue(row, REVENUE_KEYS))
               /\ overall'.conversions =
                     NumAdd(overall.conversions, UsableValue(row, CONVERSION_KEYS))
               /\ overall'.clicks = NumAdd(overall.clicks, UsableValue(row, CLICKS_KEYS))
               /\ EntitySum(aggregates', key, "spend") =
                     NumAdd(EntitySum(aggregates, key, "spend"), UsableValue(row, SPEND_KEYS))
               /\ EntitySum(aggregates', key, "revenue") =
                     NumAdd(EntitySum(aggregates, key, "revenue"),
                            UsableValue(row, REVENUE_KEYS))
               /\ EntitySum(aggregates', key, "conversions") =
                     NumAdd(EntitySum(aggregates, key, "conversions"),
                            UsableValue(row, CONVERSION_KEYS))
               /\ EntitySum(aggregates', key, "clicks") =
                     NumAdd(EntitySum(aggregates, key, "clicks"),
                            UsableValue(row, CLICKS_KEYS))]_vars

\* C11 witness: after a row with spend and revenue, a second row of the same
\* entity whose spend is a non-finite float, whose revenue is a blank string,
\* whose conversions is a boolean, whose clicks is null and whose cpc is not
\* a number was folded: it added zero to every sum and the loop went on
C11_Witness ==
    /\ pc = "loop"
    /\ i = 2
    /\ RowFolded
    /\ RowGet(data[2], "spend") = PyNonFinite
    /\ RowGet(data[2], "conversions") = PyBool(TRUE)
    /\ HasKey(data[2], "clicks") /\ IsNone(data[2]["clicks"])
    /\ OnlyUnusable(data[2], REVENUE_KEYS)
    /\ OnlyUnusable(data[2], CPC_KEYS)
    /\ loc.spend = Zero /\ loc.revenue = Zero /\ loc.conversions = Zero
    /\ loc.clicks = Zero /\ loc.cpc_value = Zero
    /\ Len(aggregates) = 1
    /\ NumPositive(aggregates[1].spend)
    /\ aggregates[1].spend = ExtractNumeric(data[1], SPEND_KEYS)
    /\ overall.revenue = ExtractNumeric(data[1], REVENUE_KEYS)
    /\ NumPositive(overall.revenue)

SumFields == {"spend", "revenue", "conversions", "clicks"}

KeysOfField(f) ==
    CASE f = "spend" -> SPEND_KEYS
      [] f = "revenue" -> REVENUE_KEYS
      [] f = "conversions" -> CONVERSION_KEYS
      [] OTHER -> CLICKS_KEYS

\* C12 (as stated): in every state during and after the aggregation of a row
\* list, the running sums of spend, revenue, conversions and clicks of every
\* entity aggregate and of the overall totals are not negative.
C12_SumsNeverNegative ==
    InAggregation =>
        \A f \in SumFields :
            /\ overall[f].n >= 0
            /\ \A k \in 1..Len(aggregates) : aggregates[k][f].n >= 0

\* no row of the sequence gives a negative number for the metric
NoNegativeCell(rows, f) ==
    \A k \in 1..Len(rows) : UsableValue(rows[k], KeysOfField(f)).n >= 0

\* C12 (amended): a negative number in a metric cell is added as it is, so a
\* running sum is not negative only as long as no row folded into it gave a
\* negative number for that metric: in every state during and after the
\* aggregation, a sum of an entity (of the overall totals) is not negative
\* when none of the consumed rows of that entity (none of the consumed rows
\* that resolve a name) holds a negative value for the metric.
C12_SumsNotNegativeWithoutNegativeCells ==
    InAggregation =>
        \A f \in SumFields :
            /\ NoNegativeCell(ResolvingRows(Consumed, scope), f) => overall[f].n >= 0
            /\ \A k \in 1..Len(aggregates) :
                  NoNegativeCell(RowsOf(Consumed, scope, aggregates[k].name), f) =>
                     aggregates[k][f].n >= 0

\* C12 witness: two rows were folded into one entity, one of them with a
\* spend of -5, so the entity's spend is negative, while its revenue, fed
\* by cells that are not negative, is positive
C12_Witness ==
    /\ pc = "loop"
    /\ i = 2
    /\ Len(aggregates) = 1
    /\ \E k \in 1..2 : RowGet(data[k], "spend") = N(-5)
    /\ aggregates[1].spend.n < 0
    /\ overall.spend.n < 0
    /\ NoNegativeCell(Consumed, "revenue")
    /\ aggregates[1].revenue.n > 10

\* sorted(...) has returned a ranked list
Ranked == pc = "sorted" \/ (pc = "done" /\ result.kind = "report")

\* the index in the input of the first row that resolves to the key
FirstRowOf(key) ==
    MinOf({k \in 1..Len(data) : Resolves(data[k], scope) /\ RowKey(data[k], scope) = key})

\* the rank of the entity of that name
RankOf(key) == CHOOSE k \in 1..Len(sorted_entities) : sorted_entities[k].name = key

\* equal revenue, equal conversions and equal return ratio (both undefined,
\* or both defined and equal)
FullyTied(x, y) ==
    /\ x.revenue = y.revenue
    /\ x.conversions = y.conversions
    /\ x.roi = y.roi

\* C13: of two entities of the ranked list that are fully tied on the
\* ranking tuple, the one whose first row came earlier in the input ranks
\* before the other.
C13_TiesInFirstAppearanceOrder ==
    Ranked =>
        \A a, b \in 1..Len(sorted_entities) :
            (/\ FullyTied(sorted_entities[a], sorted_entities[b])
             /\ FirstRowOf(sorted_entities[a].name) < FirstRowOf(sorted_entities[b].name))
            => a < b

\* C13 witness: four campaigns were ranked; B, whose row came first, and A
\* tie at revenue 10, one conversion and ratio 2 and rank second and third
\* in that order, behind C whose row came last
C13_Witness ==
    /\ pc = "sorted"
    /\ Len(sorted_entities) = 4
    /\ RowKey(data[1], scope) = <<"B">>
    /\ RowKey(data[2], scope) = <<"A">>
    /\ sorted_entities[1].name = <<"C">>
    /\ sorted_entities[2].name = <<"B">>
    /\ sorted_entities[3].name = <<"A">>
    /\ FullyTied(sorted_entities[2], sorted_entities[3])
    /\ sorted_entities[2].roi = N(2)
    /\ sorted_entities[2].clicks # sorted_entities[3].clicks

\* a full report was returned
Successful == pc = "done" /\ result.kind = "report"

\* the section of that kind in the returned report
SectionOf(kind) ==
    result.sections[CHOOSE k \in 1..Len(result.sections) : result.sections[k].sec = kind]

MinNat(a, b) == IF a < b THEN a ELSE b

\* C14: in every successful report the standout entity is the first element
\* of the ranked list; the ranked-list section holds exactly the first
\* min(3, count) ranked entities, numbered 1.. in rank order; so the
\* standout entity is item 1 of that section.
C14_StandoutAndTopList ==
    Successful =>
        LET standout == SectionOf("standout")
            top == SectionOf("top_list")
        IN /\ standout.name = sorted_entities[1].name
           /\ standout = BuildStandout(sorted_entities[1], SCOPE_CONFIG[scope])
           /\ top.count = MinNat(3, Len(sorted_entities))
           /\ Len(top.items) = MinNat(3, Len(sorted_entities))
           /\ \A k \in 1..Len(top.items) :
                 /\ top.items[k].idx = k
                 /\ top.items[k].name = sorted_entities[k].name
                 /\ top.items[k].revenue = FormatCurrency(sorted_entities[k].revenue)
                 /\ top.items[k].spend = FormatCurrency(sorted_entities[k].spend)
           /\ top.items[1].name = standout.name

\* C14 witness: a report on four ranked campaigns names C as the standout
\* and lists C, A, B as items 1, 2, 3; the fourth campaign, D, is not listed
C14_Witness ==
    /\ Successful
    /\ Len(sorted_entities) = 4
    /\ sorted_entities[4].name = <<"D">>
    /\ SectionOf("standout").name = <<"C">>
    /\ SectionOf("top_list").count = 3
    /\ SectionOf("top_list").items[1].name = <<"C">>
    /\ SectionOf("top_list").items[2].name = <<"A">>
    /\ SectionOf("top_list").items[3].name = <<"B">>

SeqToSet(s) == {s[k] : k \in 1..Len(s)}

\* the names under which a row may carry a date
DateColumns == SeqToSet(DATE_START_KEYS) \cup SeqToSet(DATE_END_KEYS)

\* every row of the list carries the column col and no other date column
SingleDateColumn(rows, col) ==
    /\ rows # <<>>
    /\ \A k \in 1..Len(rows) : DOMAIN rows[k] \cap DateColumns = {col}

\* the parsed dates of the column over the rows
ParsedOf(rows, col) ==
    {ParseDate(rows[k][col]).n :
        k \in {j \in 1..Len(rows) : Truthy(rows[j][col]) /\ ~IsNone(ParseDate(rows[j][col]))}}

MinParsed(rows, col) ==
    IF ParsedOf(rows, col) = {} THEN PyNone
    ELSE PyDate(CHOOSE x \in ParsedOf(rows, col) : \A y \in ParsedOf(rows, col) : x <= y)

MaxParsed(rows, col) ==
    IF ParsedOf(rows, col) = {} THEN PyNone
    ELSE PyDate(CHOOSE x \in ParsedOf(rows, col) : \A y \in ParsedOf(rows, col) : x >= y)

\* C15 (as stated): after the aggregation of rows that all carry one and the
\* same single date column, both ends of the observed range are defined:
\* start is the earliest and end the latest parsed date of that column.
C15_SingleColumnSetsBothEnds ==
    AfterPostPass =>
        \A col \in DateColumns :
            (SingleDateColumn(data, col) /\ AllRowsResolve /\ ParsedOf(data, col) # {}) =>
                /\ overall.start_date = MinParsed(data, col)
                /\ overall.end_date = MaxParsed(data, col)

\* C15 (amended): after the aggregation of rows that all carry one and the
\* same single date column, only one end of the observed range is defined.
\* A column that is a start candidate (start_date, fecha_inicio,
\* period_start, inicio, fecha, date, created_at) gives start = the earliest
\* parsed date of the column over the rows that resolve a name, and end stays
\* undefined; a column that is an end candidate (end_date, fecha_fin,
\* period_end, fin, updated_at) gives end = the latest parsed date, and start
\* stays undefined.
C15_SingleColumnSetsOneEnd ==
    AfterPostPass =>
        \A col \in DateColumns :
            SingleDateColumn(data, col) =>
                LET rs == ResolvingRows(data, scope)
                IN IF col \in SeqToSet(DATE_START_KEYS)
                   THEN /\ overall.start_date = MinParsed(rs, col)
                        /\ overall.end_date = PyNone
                   ELSE /\ overall.start_date = PyNone
                        /\ overall.end_date = MaxParsed(rs, col)

\* C15 witness: two rows that carry only the column fecha, the later date
\* first, were aggregated: start is the earlier parsed date and end is
\* undefined
C15_Witness ==
    /\ pc = "aggregated"
    /\ Len(data) = 2
    /\ SingleDateColumn(data, "fecha")
    /\ AllRowsResolve
    /\ Cardinality(ParsedOf(data, "fecha")) = 2
    /\ ParseDate(data[1]["fecha"]).n > ParseDate(data[2]["fecha"]).n
    /\ overall.start_date = ParseDate(data[2]["fecha"])
    /\ overall.end_date = PyNone

\* the permutations of 1..n, for every length a row list may have
PermsOf ==
    [n \in 0..MaxPermRows |->
        {f \in [1..n -> 1..n] : \A a, b \in 1..n : a # b => f[a] # f[b]}]

\* the rows in the order given by the permutation f
Permuted(rows, f) == [k \in 1..Len(rows) |-> rows[f[k]]]

Count(seq, v) == Cardinality({k \in 1..Len(seq) : seq[k] = v})

\* the same elements the same number of times
SameBag(s1, s2) ==
    /\ Len(s1) = Len(s2)
    /\ \A k \in 1..Len(s1) : Count(s1, s1[k]) = Count(s2, s1[k])

\* the same totals, ratios and date range
SameOverall(o1, o2) ==
    /\ o1.total_records = o2.total_records
    /\ o1.spend = o2.spend
    /\ o1.revenue = o2.revenue
    /\ o1.conversions = o2.conversions
    /\ o1.clicks = o2.clicks
    /\ SameBag(o1.cpc_samples, o2.cpc_samples)
    /\ o1.roi = o2.roi
    /\ o1.cpc = o2.cpc
    /\ o1.start_date = o2.start_date
    /\ o1.end_date = o2.end_date

\* the same sums, ratios and identifier list for one entity
SameEntity(e1, e2) ==
    /\ e1.name = e2.name
    /\ e1.spend = e2.spend
    /\ e1.revenue = e2.revenue
    /\ e1.conversions = e2.conversions
    /\ e1.clicks = e2.clicks
    /\ SameBag(e1.cpc_samples, e2.cpc_samples)
    /\ e1.roi = e2.roi
    /\ e1.cpc = e2.cpc
    /\ e1.ids = e2.ids

\* the same entities, whatever the order in which the dict holds them
SameEntities(a1, a2) ==
    /\ Len(a1) = Len(a2)
    /\ \A k \in 1..Len(a1) : \E j \in 1..Len(a2) : SameEntity(a1[k], a2[j])

\* the same ranking but for the places fully tied entities take among
\* themselves: the same entities, and at every rank entities that tie fully
SameRanking(a1, a2) ==
    /\ SortRaisesTypeError(a1) = SortRaisesTypeError(a2)
    /\ ~SortRaisesTypeError(a1) =>
          LET r1 == SortedDesc(a1)
              r2 == SortedDesc(a2)
          IN /\ SameEntities(r1, r2)
             /\ \A k \in 1..Len(r1) :
                   \/ SameEntity(r1[k], r2[k])
                   \/ FullyTied(r1[k], r2[k])

SectionsOfKind(kind) ==
    {k \in 1..Len(result.sections) : result.sections[k].sec = kind}

\* every metric of the row has a cell, and none of the cells is usable
AllMetricsUnusable(row) ==
    /\ OnlyUnusable(row, SPEND_KEYS)
    /\ OnlyUnusable(row, REVENUE_KEYS)
    /\ OnlyUnusable(row, CONVERSION_KEYS)
    /\ OnlyUnusable(row, CLICKS_KEYS)
    /\ OnlyUnusable(row, CPC_KEYS)

\* C17: total_records of the overall totals is the number of input rows,
\* rows whose metric cells are all unusable and rows that resolve no entity
\* name included, from the start of the aggregation on; and the coverage
\* footnote of a successful report is present and states that number.
C17_TotalRecordsCountsEveryRow ==
    /\ InAggregation => overall.total_records = Len(data)
    /\ Successful =>
          /\ Cardinality(SectionsOfKind("coverage")) = 1
          /\ SectionOf("coverage").total = Len(data)

\* C17 witness: a report was returned for two rows, one that resolves no
\* name and one whose metric cells are all unusable; its footnote says 2
C17_Witness ==
    /\ Successful
    /\ Len(data) = 2
    /\ \E k \in 1..2 : ~Resolves(data[k], scope)
    /\ \E k \in 1..2 : Resolves(data[k], scope) /\ AllMetricsUnusable(data[k])
    /\ overall.total_records = 2
    /\ SectionOf("coverage").total = 2

\* the ratios a report prints, each with the texts printed for it: those of
\* the overall totals in the summary block, those of the first ranked entity
\* in the standout line, those of the listed entities in the ranked list
PrintedRatios ==
    {[roi |-> overall.roi, cpc |-> overall.cpc,
      roas_text |-> SectionOf("summary").roas, cpc_text |-> SectionOf("summary").cpc],
     [roi |-> sorted_entities[1].roi, cpc |-> sorted_entities[1].cpc,
      roas_text |-> SectionOf("standout").roas, cpc_text |-> SectionOf("standout").cpc]}
    \cup
    {[roi |-> sorted_entities[k].roi, cpc |-> sorted_entities[k].cpc,
      roas_text |-> SectionOf("top_list").items[k].roas,
      cpc_text |-> SectionOf("top_list").items[k].cpc] :
        k \in 1..Len(SectionOf("top_list").items)}

\* C18 (as stated): in the summary block, the standout line and every line
\* of the ranked list, ROAS and CPC are printed as "n/d" exactly when the
\* ratio is undefined, and as a number whenever it is defined, zero included.
C18_NotAvailableOnlyWhenUndefined ==
    Successful =>
        \A p \in PrintedRatios :
            /\ (p.roas_text = NotAvailable) <=> IsNone(p.roi)
            /\ (p.cpc_text = NotAvailable) <=> IsNone(p.cpc)

\* C18 (amended): in the summary block, the standout line and every line of
\* the ranked list, ROAS and CPC are printed as "n/d" exactly when the ratio
\* is undefined or not greater than zero; a ratio is printed as a number
\* (two decimals) exactly when it is defined and positive.  A defined ratio
\* of zero (revenue 0 on a positive spend, no spend on positive clicks) and a
\* negative ratio are printed as "n/d".
C18_NotAvailableUnlessPositive ==
    Successful =>
        \A p \in PrintedRatios :
            /\ IF ~IsNone(p.roi) /\ p.roi.n > 0
               THEN p.roas_text = Txt("roas", RoundScaled(p.roi, 100))
               ELSE p.roas_text = NotAvailable
            /\ IF ~IsNone(p.cpc) /\ p.cpc.n > 0
               THEN p.cpc_text = Txt("currency", RoundScaled(p.cpc, 100))
               ELSE p.cpc_text = NotAvailable

\* C18 witness: a report lists two entities; the first has a positive ratio,
\* printed as a number, the second a defined ratio of zero, printed as "n/d"
C18_Witness ==
    /\ Successful
    /\ Len(sorted_entities) = 2
    /\ sorted_entities[1].roi.t = "num" /\ sorted_entities[1].roi.n > 0
    /\ SectionOf("top_list").items[1].roas.f = "roas"
    /\ SectionOf("standout").roas.f = "roas"
    /\ sorted_entities[2].roi = Zero
    /\ NumPositive(sorted_entities[2].spend)
    /\ SectionOf("top_list").items[2].roas = NotAvailable

\* the kinds of the parts of the returned text, in order
PartKinds == [k \in 1..Len(result.sections) |-> result.sections[k].sec]

\* C19: every successful report is made, in this order, of the header, the
\* summary block, the standout line, the ranked list, the coverage footnote
\* (when there is one, that is when total_records is positive) and the
\* closing prompt, with exactly one blank line between neighbours; no part
\* is empty, and header, summary, standout, ranked list and closing prompt
\* are each present once.
C19_FixedSectionOrder ==
    Successful =>
        /\ PartKinds =
              IF overall.total_records > 0
              THEN <<"header", "blank_line", "summary", "blank_line", "standout",
                     "blank_line", "top_list", "blank_line", "coverage", "blank_line",
                     "closing">>
              ELSE <<"header", "blank_line", "summary", "blank_line", "standout",
                     "blank_line", "top_list", "blank_line", "closing">>
        /\ \A k \in 1..Len(result.sections) : result.sections[k] # EmptyText
        /\ SectionOf("header") = BuildHeader(SCOPE_CONFIG[scope], overall)
        /\ SectionOf("summary") = BuildSummaryLines(overall)
        /\ Len(SectionOf("top_list").items) >= 1
        /\ SectionOf("closing") = ClosingPrompt

\* C19 witness: a report on two entities with a date range in its header
\* and the coverage footnote between the ranked list and the closing prompt
C19_Witness ==
    /\ Successful
    /\ Len(sorted_entities) = 2
    /\ Len(result.sections) = 11
    /\ result.sections[1].sec = "header"
    /\ result.sections[1].range.f = "range"
    /\ result.sections[9].sec = "coverage"
    /\ result.sections[9].total = 2
    /\ result.sections[10] = BlankLine
    /\ result.sections[11] = ClosingPrompt

\* normalize_scope has returned
Normalized == norm.pc = "done"

\* the alias occurs in the text: some slice of the text is the alias
Occurs(alias, text) ==
    \E a \in 0..Len(text), b \in 0..Len(text) : SubSeq(text, a + 1, b) = alias

\* the canonical scopes of the aliases that occur in the text
ContainedScopes(text) ==
    {SCOPE_ALIASES[k].canonical :
        k \in {j \in 1..Len(SCOPE_ALIASES) : Occurs(SCOPE_ALIASES[j].alias, text)}}

\* C20: normalize_scope(text) returns the canonical scope of the alias that
\* is equal to the cleaned text (diacritics stripped, lower-cased, blanks
\* collapsed) when there is one; otherwise the canonical scope of an alias
\* that the cleaned text contains; and None exactly when the text is empty
\* or contains no alias.  "Conjuntos de Anuncios" gives adsets and "banana"
\* gives None.
C20_NormalizeScope ==
    Normalized =>
        LET cleaned == CleanText(norm.scope)
        IN /\ \A k \in 1..Len(SCOPE_ALIASES) :
                 SCOPE_ALIASES[k].alias = cleaned =>
                    norm.result = SCOPE_ALIASES[k].canonical
           /\ norm.result # "None" => norm.result \in ContainedScopes(cleaned)
           /\ norm.result = "None" <=>
                 (norm.scope = <<>> \/ ContainedScopes(cleaned) = {})
           /\ norm.scope = <<"C", "o", "n", "j", "u", "n", "t", "o", "s", " ", "d", "e",
                             " ", "A", "n", "u", "n", "c", "i", "o", "s">>
                 => norm.result = "adsets"
           /\ norm.scope = <<"b", "a", "n", "a", "n", "a">> => norm.result = "None"
           /\ norm.result = NormalizeScope(norm.scope)

\* C20 witness: "nada  3" was normalised: cleaned to "nada 3" it is no
\* alias, and the alias "ad" that it contains gives ads
C20_Witness ==
    /\ Normalized
    /\ norm.scope = <<"n", "a", "d", "a", " ", " ", "3">>
    /\ norm.cleaned = <<"n", "a", "d", "a", " ", "3">>
    /\ ExactAliases(norm.cleaned) = {}
    /\ SCOPE_ALIASES[norm.at].alias = <<"a", "d">>
    /\ norm.result = "ads"

(***************************************************************************)
(* C21, C22: the monthly sales insight                                     *)
(***************************************************************************)
SalesDone == sales.pc = "done"
SalesReturned == SalesDone /\ sales.result.kind \in {"None", "text"}

MonthOfRow(k) == SalesRowValues(sales.records[k]).month_date
RevenueOfRow(k) == SalesRowValues(sales.records[k]).revenue

\* the rows of the call that carry a parseable month
DatedRows == {k \in 1..Len(sales.records) : ~IsNone(MonthOfRow(k))}

\* the first row in iteration order among the dated rows of highest revenue
HighestRevenueRow ==
    MinOf({k \in DatedRows :
              \A j \in DatedRows : ~NumLess(RevenueOfRow(k), RevenueOfRow(j))})

\* the dated row of the earliest month
EarliestRow == CHOOSE k \in DatedRows : \A j \in DatedRows : MonthOfRow(k).n <= MonthOfRow(j).n

InsightLinesOf(kind) ==
    {k \in 1..Len(sales.result.lines) : sales.result.lines[k].kind = kind}

\* C21: when _build_sales_insights returns for rows of which some carry a
\* month, the text names as best month the first dated row of highest revenue
\* (with that revenue) and as first record the earliest month of the dated rows
C21_BestMonthIsHighestRevenue ==
    (SalesReturned /\ DatedRows # {}) =>
        /\ \E k \in InsightLinesOf("best_month") :
              /\ sales.result.lines[k].month = FormatMonth(MonthOfRow(HighestRevenueRow))
              /\ sales.result.lines[k].revenue = SalesCurrency(RevenueOfRow(HighestRevenueRow))
        /\ \E k \in InsightLinesOf("first_record") :
              sales.result.lines[k].month = FormatMonth(MonthOfRow(EarliestRow))

\* C22: _build_sales_insights returns None exactly when no row carries a
\* parseable month, and the best month and the first record of a returned
\* text are always taken from rows that carry one
C22_NoneIffNoParseableMonth ==
    SalesDone =>
        /\ (sales.result.kind = "None") <=> (DatedRows = {})
        /\ \A k \in InsightLinesOf("best_month") :
              \E r \in DatedRows :
                 /\ sales.result.lines[k].month = FormatMonth(MonthOfRow(r))
                 /\ sales.result.lines[k].revenue = SalesCurrency(RevenueOfRow(r))
        /\ \A k \in InsightLinesOf("first_record") :
              \E r \in DatedRows : sales.result.lines[k].month = FormatMonth(MonthOfRow(r))

\* a text was returned for rows of which one without a parseable month has a
\* larger revenue than every row with a month
C22_Witness ==
    /\ SalesDone
    /\ sales.result.kind = "text"
    /\ InsightLinesOf("best_month") # {}
    /\ \E u \in (1..Len(sales.records)) \ DatedRows :
          \A r \in DatedRows : NumLess(RevenueOfRow(r), RevenueOfRow(u))

(***************************************************************************)
(* C23: grouping by the trimmed name                                       *)
(***************************************************************************)
\* the rows consumed so far that resolve a name
ResolvedSoFar == {k \in 1..i : Resolves(data[k], scope)}

\* the trimmed names of the rows consumed so far
TrimmedNames == {RowKey(data[k], scope) : k \in ResolvedSoFar}

\* the untrimmed text of the name a row resolves
RawName(row) == StrOf(GetFirstNonEmpty(row, SCOPE_CONFIG[scope].group_keys))

\* the first consumed row of that trimmed name
FirstRowNamed(key) == MinOf({k \in ResolvedSoFar : RowKey(data[k], scope) = key})

\* C23: at every point of the aggregation there is exactly one aggregate per
\* distinct trimmed (case-sensitive) name of the resolving rows consumed so
\* far, in the order of the first row of each name, and it holds the sums of
\* exactly the rows of that trimmed name
C23_GroupedByTrimmedName ==
    InAggregation =>
        /\ \A a, b \in 1..Len(aggregates) :
              a # b => aggregates[a].name # aggregates[b].name
        /\ {aggregates[k].name : k \in 1..Len(aggregates)} = TrimmedNames
        /\ Len(aggregates) = Cardinality(TrimmedNames)
        /\ \A a, b \in 1..Len(aggregates) :
              a < b => FirstRowNamed(aggregates[a].name) < FirstRowNamed(aggregates[b].name)
        /\ \A k \in 1..Len(aggregates) :
              /\ aggregates[k].spend
                    = SumCoerced(RowsOf(Consumed, scope, aggregates[k].name), SPEND_KEYS)
              /\ aggregates[k].revenue
                    = SumCoerced(RowsOf(Consumed, scope, aggregates[k].name), REVENUE_KEYS)

\* three rows whose names differ as texts were aggregated into two entities:
\* two names differ in blanks only, the third in case
C23_Witness ==
    /\ pc = "aggregated"
    /\ Len(data) = 3
    /\ ResolvedSoFar = {1, 2, 3}
    /\ Cardinality({RawName(data[k]) : k \in 1..3}) = 3
    /\ Cardinality({Lower(RowKey(data[k], scope)) : k \in 1..3}) = 1
    /\ Len(aggregates) = 2


(***************************************************************************)
(* C28: what normalize_scope returns is a scope the report accepts         *)
(***************************************************************************)
\* C28: a non-None result of normalize_scope is one of the scopes of
\* SCOPE_CONFIG, normalising it again gives the same scope, and the
\* marketing report never answers it with the ask-for-level or the
\* unknown-scope reply
C28_ResultIsAcceptedScope ==
  (norm.pc = "done" /\ norm.result # "None") =>
     /\ norm.result \in DOMAIN SCOPE_CONFIG
     /\ NormalizeScope(ScopeChars(norm.result)) = norm.result
     /\ \A f \in FetchOutcomes :
          MarketingAnswer(ScopeChars(norm.result), f) \notin {"need_level", "unknown_scope"}

\* a scope found by containment rather than by an exact alias
C28_Witness ==
  /\ norm.pc = "done"
  /\ norm.result = "adsets"
  /\ ExactAliases(norm.cleaned) = {}

(***************************************************************************)
(* C24-C26, C30: process_message                                           *)
(***************************************************************************)
\* message_lower of a call (line 66)
MessageLower(t) == Strip(Lower(chat.frames[t].text))

\* the call of t has returned a reply built from a conversation
Answered(t) == chat.frames[t].pc = "returned" /\ chat.frames[t].conv # 0

\* the messages of the conversation the call of t works on
MessagesOf(t) == chat.heap[chat.frames[t].conv].messages

\* C24: a non-first message that is a menu number is dispatched through
\* number_map: '3'/'tres' sets awaiting_marketing_scope and is answered with
\* the initial marketing-scope prompt, every other number is answered by
\* generate_response with the mapped command
C24_MenuNumberUsesNumberMap ==
  \A t \in Tasks :
    (Answered(t) /\ ~chat.frames[t].is_first /\ NumberMap(MessageLower(t)) # "") =>
       IF NumberMap(MessageLower(t)) = "marketing"
         THEN /\ chat.frames[t].response = MarketingScopePrompt(FALSE)
              /\ chat.heap[chat.frames[t].conv].awaiting
         ELSE chat.frames[t].response = AiReply(NumberMap(MessageLower(t)), <<>>)

\* the messages the conversation held before the call of t appended to it
MessagesBefore(t) ==
    SubSeq(MessagesOf(t), 1, Len(MessagesOf(t)) - Len(chat.frames[t].appended))

\* no message of the sequence is a user message
NoUserMessage(messages) == \A k \in 1..Len(messages) : messages[k].role # "user"

\* the call of t has obtained its conversation and not yet handed its reply over
Entered(t) == chat.frames[t].conv # 0

AddedEntries ==
    IF chat.store = 0 THEN <<>>
    ELSE SubSeq(chat.heap[chat.store].messages, chat.heap[chat.store].loaded + 1,
                Len(chat.heap[chat.store].messages))

\* the added entries are user, assistant, user, assistant, ...
Alternates(entries) ==
    \A k \in 1..Len(entries) :
      entries[k].role = IF k % 2 = 1 THEN "user" ELSE "assistant"

\* C30 as stated: no call propagates an exception and every call that has
\* returned added a user entry and then exactly one assistant entry
C30_EveryCallAddsUserThenAssistant ==
  \A t \in Tasks :
    /\ ~chat.frames[t].raised
    /\ chat.frames[t].pc = "returned" =>
         chat.frames[t].appended = <<"user", "assistant">>

\* C30: no call propagates an exception; a call that fails returns the
\* technical-error reply and has added nothing; any other call has added its
\* user entry before the response is awaited and exactly one assistant entry,
\* the response, after it; the added entries alternate user, assistant
C30_NoExceptionAndAlternation ==
  /\ Alternates(AddedEntries)
  /\ \A t \in Tasks :
       /\ ~chat.frames[t].raised
       /\ chat.frames[t].pc \in {"await_report", "await_ai"} =>
            /\ chat.frames[t].appended = <<"user">>
            /\ MessagesOf(t)[Len(MessagesOf(t))] =
                 Entry("user", Content("text", "", chat.frames[t].text),
                       chat.frames[t].message_id)
       /\ chat.frames[t].pc = "returned" =>
            IF chat.frames[t].conv = 0
              THEN /\ chat.frames[t].response = TechnicalError
                   /\ chat.frames[t].appended = <<>>
              ELSE /\ chat.frames[t].response # TechnicalError
                   /\ chat.frames[t].appended = <<"user", "assistant">>
                   /\ MessagesOf(t)[Len(MessagesOf(t))] =
                        Entry("assistant", chat.frames[t].response, 0)
                   /\ MessagesOf(t)[Len(MessagesOf(t)) - 1].message_id =
                        chat.frames[t].message_id

\* a second call was answered by the AI after the first call had failed in
\* get_conversation and added nothing
C30_Witness ==
  /\ chat.started = 2
  /\ Answered(1)
  /\ chat.frames[1].response.kind = "ai"
  /\ Len(AddedEntries) = 2

\* C25: two calls that both built the conversation of the number end up on
\* the one object stored in self.conversations, which holds the user entry
\* and the reply of both, and at most one of them was a first message
C25_RacingCallsShareOneConversation ==
  \A t \in Tasks, u \in Tasks :
    (t # u /\ Answered(t) /\ Answered(u)
       /\ chat.frames[t].created /\ chat.frames[u].created) =>
      /\ chat.frames[t].conv = chat.store
      /\ chat.frames[u].conv = chat.store
      /\ \E k \in 1..Len(chat.heap[chat.store].messages) :
           chat.heap[chat.store].messages[k].message_id = chat.frames[t].message_id
      /\ ~(chat.frames[t].is_first /\ chat.frames[u].is_first)

(***************************************************************************)
(* C27: webhook_verify                                                     *)
(***************************************************************************)
\* C27: the verification endpoint answers 200 with the challenge when
\* verify_webhook succeeds and 403 when it fails; it answers 500 only when
\* something unexpected was raised while handling the request
C27_FailedVerificationAnswers403 ==
  hook.pc = "done" =>
    /\ hook.verified = "true" =>
         (hook.status = 200 /\ hook.body = IF hook.challenge = "None" THEN "" ELSE hook.challenge)
    /\ hook.verified = "false" => hook.status = 403
    /\ hook.status = 500 => hook.verified = "raised"

====
